---- MODULE Spec2Model ----
(***************************************************************************)
(* A model of comby-python: the binary client (src/src/comby/binary.py),   *)
(* its data model (src/src/comby/core.py) and the HTTP client with its     *)
(* ephemeral server (src/src/comby.py, src/src/rooibos/__init__.py,        *)
(* src/src/comby/http.py).                                                 *)
(*                                                                         *)
(* A Python str is a sequence of characters; a literal of the library      *)
(* (a flag such as -stdin) is kept as one element.  The rewrite engine is  *)
(* external: what it prints and how it exits is a nondeterministic input   *)
(* of every action that runs it.                                           *)
(***************************************************************************)
EXTENDS Integers, Sequences, FiniteSets, TLC

VARIABLES
    linesep,      \* os.linesep of the platform the library was imported on
    typeguard,    \* whether the decorators of typeguard check at run time
    b_ctor,       \* the last CombyBinary(...) call: the language asked for, how it ended
    b_op,         \* the CombyBinary operation that ran last
    b_args,       \* the arguments that operation was called with
    b_runs,       \* engine processes started by that operation
    b_cmd,        \* the command line handed to the shell by call
    b_input,      \* what call passed as the child's standard input
    b_proc,       \* the completed engine process: returncode, stdout, stderr
    b_alive,      \* whether an engine process the client started is still running
    b_out,        \* how the operation ended: a returned value or a raised error
    g_state,      \* the generator returned by CombyBinary.matches
    g_jsn,        \* its jsn_matches list
    g_i,          \* index of the next element of jsn_matches
    g_yielded,    \* the Match objects handed to the caller so far
    s_pc,         \* position in ephemeral_server and the with statement using it
    s_proc,       \* proc of ephemeral_server: "None" or the "Popen" of the child
    s_signals,    \* os.killpg(proc.pid, SIGTERM) calls made
    s_exit,       \* how the with statement was left
    s_child,      \* the child process: none, running, or zombie (exited, not waited for)
    c_pc,         \* position in Client.__init__, then the state of the Client
    c_timeout_connection, \* the constructor's argument, in ticks
    c_time_left,  \* its local time_left, in ticks
    c_elapsed,    \* timer() - time_started, as the constructor would read it now
    c_connected,  \* its local connected
    c_last,       \* how the last status probe ended
    c_self,       \* the attributes of the Client: base_url and timeout
    c_failed,     \* whether a request of this Client has failed (history)
    h_req,        \* the last request posted: its path and payload
    h_resp,       \* the HTTP response of the last request
    h_out,        \* how the last Client request ended
    h_state,      \* the generator returned by Client.matches
    h_jsn,        \* its jsn_matches list (reversed, popped from the end)
    h_i,          \* its local i
    h_yielded,    \* the Match objects handed to the caller so far
    d_variant,    \* the module of a value the caller holds: core, comby or rooibos
    d_class,      \* its class
    d_ts,         \* the list Environment.from_dict was given
    d_made,       \* how its construction ended, and the value as constructed
    d_value,      \* the value as it is now
    d_out         \* how the last operation on it ended

binVars == <<linesep, typeguard, b_ctor, b_op, b_args, b_runs, b_cmd, b_input, b_proc, b_alive, b_out,
             g_state, g_jsn, g_i, g_yielded>>
scopeVars == <<s_pc, s_proc, s_signals, s_exit, s_child>>
ctorVars == <<c_timeout_connection, c_time_left, c_elapsed, c_connected, c_last>>
srvVars == <<scopeVars, ctorVars, c_pc, c_self, c_failed>>
httpVars == <<h_req, h_resp, h_out, h_state, h_jsn, h_i, h_yielded>>
dataVars == <<d_variant, d_class, d_ts, d_made, d_value, d_out>>
vars == <<binVars, srvVars, httpVars, dataVars>>

-----------------------------------------------------------------------------
(* Bounds of the model. *)

\* longest text the engine prints on standard output in rewrite / substitute
MaxOut == 3
\* most matches in one engine response
MaxMatches == 2

-----------------------------------------------------------------------------
(* Python values. *)

RECURSIVE SeqsUpTo(_, _)
SeqsUpTo(S, n) ==
    IF n = 0 THEN {<<>>}
    ELSE LET shorter == SeqsUpTo(S, n - 1)
         IN  shorter \cup {Append(s, c) : s \in {t \in shorter : Len(t) = n - 1}, c \in S}

\* Optional[str]: None or a str
PyNone == [none |-> TRUE, s |-> <<>>]
Some(s) == [none |-> FALSE, s |-> s]
\* truth value of an Optional[str]: None and "" are false
Truthy(o) == ~o.none /\ o.s # <<>>

\* str.endswith
EndsWith(s, suffix) ==
    /\ Len(s) >= Len(suffix)
    /\ SubSeq(s, Len(s) - Len(suffix) + 1, Len(s)) = suffix

\* " ".join(words)
RECURSIVE Join(_)
Join(words) ==
    IF words = <<>> THEN <<>>
    ELSE IF Len(words) = 1 THEN words[1]
    ELSE words[1] \o <<" ">> \o Join(Tail(words))

\* exceptions: the class, and the fields CombyBinaryError carries
NoExc == [type |-> "", code |-> 0, message |-> <<>>]
Exc(type) == [type |-> type, code |-> 0, message |-> <<>>]

\* the base classes of each exception class the model raises
Bases(type) ==
    CASE type = "CombyBinaryError" -> {"CombyBinaryError", "CombyExceptionError", "Exception"}
      [] type = "ConnectionFailureError" -> {"ConnectionFailureError", "CombyExceptionError", "Exception"}
      [] type = "ConnectionFailure" -> {"ConnectionFailure", "CombyException", "Exception"}
      [] type = "CalledProcessError" -> {"CalledProcessError", "SubprocessError", "Exception"}
      [] type = "NotImplementedError" -> {"NotImplementedError", "RuntimeError", "Exception"}
      [] type = "JSONDecodeError" -> {"JSONDecodeError", "ValueError", "Exception"}
      [] OTHER -> {type, "Exception"}

-----------------------------------------------------------------------------
(* JSON values, as json.loads returns them and json.dumps takes them.       *)
(* Python's None is JNull.  A dict keeps its keys in insertion order.       *)

JNull == [t |-> "null"]
JInt(n) == [t |-> "int", n |-> n]
JStr(s) == [t |-> "str", s |-> s]
JList(xs) == [t |-> "list", xs |-> xs]
JDict(ks, vs) == [t |-> "dict", ks |-> ks, vs |-> vs]

\* json.dumps of the characters of a str (ensure_ascii; the model's texts are ASCII)
RECURSIVE JsonEscape(_)
JsonEscape(s) ==
    IF s = <<>> THEN <<>>
    ELSE LET c == Head(s)
             e == CASE c = "\"" -> <<"\\", "\"">>
                    [] c = "\\" -> <<"\\", "\\">>
                    [] c = "\n" -> <<"\\", "n">>
                    [] c = "\r" -> <<"\\", "r">>
                    [] OTHER -> <<c>>
         IN  e \o JsonEscape(Tail(s))

\* json.dumps with its default separators ", " and ": "
RECURSIVE JsonDumps(_)
RECURSIVE JsonDumpsItems(_, _, _)
JsonDumpsItems(ks, vs, i) ==
    IF i > Len(vs) THEN <<>>
    ELSE (IF i > 1 THEN <<",", " ">> ELSE <<>>)
         \o (IF ks = <<>> THEN <<>>
             ELSE <<"\"">> \o JsonEscape(ks[i]) \o <<"\"", ":", " ">>)
         \o JsonDumps(vs[i])
         \o JsonDumpsItems(ks, vs, i + 1)
JsonDumps(v) ==
    CASE v.t = "null" -> <<"null">>
      [] v.t = "int" -> <<ToString(v.n)>>
      [] v.t = "str" -> <<"\"">> \o JsonEscape(v.s) \o <<"\"">>
      [] v.t = "list" -> <<"[">> \o JsonDumpsItems(<<>>, v.xs, 1) \o <<"]">>
      [] v.t = "dict" -> <<"{">> \o JsonDumpsItems(v.ks, v.vs, 1) \o <<"}">>

\* d.get(k): the value of the last entry with key k, None when there is none
HasKey(d, k) == \E i \in 1..Len(d.ks) : d.ks[i] = k
DictGet(d, k) ==
    IF HasKey(d, k)
    THEN d.vs[CHOOSE i \in 1..Len(d.ks) :
                  d.ks[i] = k /\ \A j \in (i + 1)..Len(d.ks) : d.ks[j] # k]
    ELSE JNull

\* the result of a step that may raise: err is "" or the exception class
Ok(v) == [err |-> "", val |-> v]
Err(e) == [err |-> e, val |-> JNull]

\* x.get(k) on any value: only a dict has .get
PyGet(x, k) == IF x.t = "dict" THEN Ok(DictGet(x, k)) ELSE Err("AttributeError")

\* x[k] on any value with a str key: KeyError on a dict without it, TypeError on
\* a value of another type (a list or str index must be an integer)
PyItem(x, k) ==
    IF x.t = "dict"
    THEN IF HasKey(x, k) THEN Ok(DictGet(x, k)) ELSE Err("KeyError")
    ELSE Err("TypeError")

\* the elements a for loop draws from a value: a list's items, a dict's keys,
\* a str's characters; None and numbers are not iterable
RECURSIVE StrItems(_)
StrItems(s) == IF s = <<>> THEN <<>> ELSE <<JStr(<<Head(s)>>)>> \o StrItems(Tail(s))
RECURSIVE KeyItems(_)
KeyItems(ks) == IF ks = <<>> THEN <<>> ELSE <<JStr(Head(ks))>> \o KeyItems(Tail(ks))
PyIter(x) ==
    CASE x.t = "list" -> Ok(x.xs)
      [] x.t = "dict" -> Ok(KeyItems(x.ks))
      [] x.t = "str" -> Ok(StrItems(x.s))
      [] OTHER -> Err("TypeError")

-----------------------------------------------------------------------------
(* The data model of src/src/comby/core.py and its decoders. *)

\* r's value handed to the rest of the function, unless r is a raised exception
Bind(r, rest(_)) == IF r.err # "" THEN Err(r.err) ELSE rest(r.val)
\* raise type unless cond holds
Check(cond, type, r) == IF cond THEN r ELSE Err(type)

\* @typechecked: the annotations of the decorated classes' methods are checked
\* at run time where typeguard is in force (it is not under python -O), and a
\* value that does not fit raises before the body runs.  An argument is
\* checked with all its items.
Typechecked(fits, r) == IF typeguard /\ ~fits THEN Err("TypeCheckError") ELSE r

\* dict[str, int]
IsDictStrInt(v) ==
    v.t = "dict" /\ \A i \in 1..Len(v.vs) : v.vs[i].t = "int"
\* dict[str, dict[str, int]]
IsDictStrDictStrInt(v) ==
    v.t = "dict" /\ \A i \in 1..Len(v.vs) : IsDictStrInt(v.vs[i])
\* dict[str, str | dict[str, dict[str, int]]]
IsBoundTermDict(v) ==
    v.t = "dict" /\ \A i \in 1..Len(v.vs) : v.vs[i].t = "str" \/ IsDictStrDictStrInt(v.vs[i])
\* Sequence[dict[str, str | dict[str, dict[str, int]]]]: a list of such dicts;
\* a str is a Sequence too, of str items, so only the empty str fits
IsBoundTermDicts(v) ==
    \/ v.t = "list" /\ \A i \in 1..Len(v.xs) : IsBoundTermDict(v.xs[i])
    \/ v.t = "str" /\ v.s = <<>>

\* a TypedDict: exactly these keys
HasKeys(v, keys) == v.t = "dict" /\ {v.ks[i] : i \in 1..Len(v.ks)} = keys
\* ConfigMatch
IsConfigMatch(v) ==
    /\ HasKeys(v, {<<"matched">>, <<"range">>, <<"environment">>})
    /\ DictGet(v, <<"matched">>).t = "str"
    /\ IsDictStrDictStrInt(DictGet(v, <<"range">>))
    /\ IsBoundTermDicts(DictGet(v, <<"environment">>))
\* list[ConfigMatch], as the value of an annotated local variable: only the
\* releases of typeguard that check such assignments check this one, and they
\* look at the first item of a list (collection_check_strategy, by default
\* FIRST_ITEM)
IsConfigMatches(v) ==
    v.t = "list" /\ (v.xs # <<>> => IsConfigMatch(v.xs[1]))
\* ConfigJson
IsConfigJson(v) ==
    /\ HasKeys(v, {<<"matches">>, <<"uri">>})
    /\ DictGet(v, <<"uri">>).t = "null"
    /\ IsConfigMatches(DictGet(v, <<"matches">>))

\* Location.from_dict: the three subscripts, in the order the call evaluates them
LocationFromDict(location_dict) ==
    Typechecked(IsDictStrInt(location_dict),
    Bind(PyItem(location_dict, <<"line">>), LAMBDA line :
    Bind(PyItem(location_dict, <<"column">>), LAMBDA column :
    Bind(PyItem(location_dict, <<"offset">>), LAMBDA offset :
    Ok([line |-> line, col |-> column, offset |-> offset])))))

\* LocationRange.from_dict
LocationRangeFromDict(location_range_dict) ==
    Typechecked(IsDictStrDictStrInt(location_range_dict),
    Bind(PyItem(location_range_dict, <<"start">>), LAMBDA s :
    Bind(LocationFromDict(s), LAMBDA start :
    Bind(PyItem(location_range_dict, <<"end">>), LAMBDA e :
    Bind(LocationFromDict(e), LAMBDA stop :
    Ok([start |-> start, stop |-> stop]))))))

\* BoundTerm.from_dict
BoundTermFromDict(bound_term_dict) ==
    Typechecked(IsBoundTermDict(bound_term_dict),
    Bind(PyItem(bound_term_dict, <<"variable">>), LAMBDA term :
    Bind(PyItem(bound_term_dict, <<"range">>), LAMBDA range :
    Bind(PyItem(bound_term_dict, <<"value">>), LAMBDA fragment :
    Check(term.t = "str", "TypeError",
    Check(range.t = "dict", "TypeError",
    Check(fragment.t = "str", "TypeError",
    Bind(LocationRangeFromDict(range), LAMBDA loc :
    Ok([term |-> term.s, location |-> loc, fragment |-> fragment.s])))))))))

\* a dict comprehension in which the first binding of a term is the one kept
RECURSIVE EnvironmentInitFirstWins(_)
EnvironmentInitFirstWins(bindings) ==
    IF bindings = <<>> THEN <<>>
    ELSE LET front == EnvironmentInitFirstWins(SubSeq(bindings, 1, Len(bindings) - 1))
             b == bindings[Len(bindings)]
         IN  IF \E i \in 1..Len(front) : front[i].term = b.term
             THEN front
             ELSE Append(front, b)

\* a dict comprehension in which a repeated term moves to the end of the dict
RECURSIVE EnvironmentInitAppending(_)
EnvironmentInitAppending(bindings) ==
    IF bindings = <<>> THEN <<>>
    ELSE LET front == EnvironmentInitAppending(SubSeq(bindings, 1, Len(bindings) - 1))
             b == bindings[Len(bindings)]
         IN  Append(SelectSeq(front, LAMBDA x : x.term # b.term), b)

\* Environment.__init__: {b.term: b for b in bindings}, kept as the list of the
\* dict's values in the dict's order: a repeated term overwrites in place
RECURSIVE EnvironmentInit(_)
EnvironmentInit(bindings) ==
    IF bindings = <<>> THEN <<>>
    ELSE LET front == EnvironmentInit(SubSeq(bindings, 1, Len(bindings) - 1))
             b == bindings[Len(bindings)]
         IN  IF \E i \in 1..Len(front) : front[i].term = b.term
             THEN [i \in 1..Len(front) |-> IF front[i].term = b.term THEN b ELSE front[i]]
             ELSE Append(front, b)

\* [BoundTerm.from_dict(bt) for bt in ts]: stops at the first element that raises
RECURSIVE BoundTermsFromList(_)
BoundTermsFromList(items) ==
    IF items = <<>> THEN Ok(<<>>)
    ELSE Bind(BoundTermFromDict(Head(items)), LAMBDA bt :
         Bind(BoundTermsFromList(Tail(items)), LAMBDA rest :
         Ok(<<bt>> \o rest)))

\* Environment.from_dict
EnvironmentFromDict(ts) ==
    Typechecked(IsBoundTermDicts(ts),
    Bind(PyIter(ts), LAMBDA items :
    Bind(BoundTermsFromList(items), LAMBDA bindings :
    Ok(EnvironmentInit(bindings)))))

\* Match.from_dict, on the dict CombyBinary.matches builds: location and
\* environment are typed values by then, matched is whatever the engine sent
MatchFromDict(matched, loc, environment) ==
    Check(matched.t = "str", "TypeError",
    Ok([matched |-> matched.s, location |-> loc, environment |-> environment]))

\* the body of the for loop of CombyBinary.matches: one engine match to one Match
DecodeMatch(jsn_match) ==
    Bind(PyGet(jsn_match, <<"matched">>), LAMBDA matched_raw :
    Typechecked(matched_raw.t \in {"str", "null"},
    Check(matched_raw.t # "null", "TypeError",
    Bind(PyGet(jsn_match, <<"range">>), LAMBDA location_raw :
    Typechecked(location_raw.t = "null" \/ IsDictStrDictStrInt(location_raw),
    Check(location_raw.t # "null", "TypeError",
    Bind(LocationRangeFromDict(location_raw), LAMBDA loc :
    Bind(PyGet(jsn_match, <<"environment">>), LAMBDA environment_raw :
    Typechecked(environment_raw.t = "null" \/ IsBoundTermDicts(environment_raw),
    Check(environment_raw.t # "null", "TypeError",
    Bind(EnvironmentFromDict(environment_raw), LAMBDA environment :
    MatchFromDict(matched_raw, loc, environment))))))))))))

-----------------------------------------------------------------------------
(* Library functions used by src/src/comby/binary.py. *)

\* the characters shlex.quote leaves alone: [\w@%+=:,./-], of those the model uses
SafeChars ==
    {"a", "b", "c", "e", "f", "p", "x", "y", "0", "1", "2", "_",
     "@", "%", "+", "=", ":", ",", ".", "/", "-"}

\* s.replace("'", "'\"'\"'")
RECURSIVE ReplaceQuotes(_)
ReplaceQuotes(s) ==
    IF s = <<>> THEN <<>>
    ELSE (IF Head(s) = "'" THEN <<"'", "\"", "'", "\"", "'">> ELSE <<Head(s)>>)
         \o ReplaceQuotes(Tail(s))

\* a string put on the command line as it is
Unquoted(s) == s

\* shlex.quote
ShlexQuote(s) ==
    IF s = <<>> THEN <<"'", "'">>
    ELSE IF \A i \in 1..Len(s) : s[i] \in SafeChars THEN s
    ELSE <<"'">> \o ReplaceQuotes(s) \o <<"'">>

\* str.strip(): leading and trailing whitespace removed
Whitespace == {" ", "\n", "\r", "\t"}
RECURSIVE LStrip(_)
LStrip(s) == IF s # <<>> /\ Head(s) \in Whitespace THEN LStrip(Tail(s)) ELSE s
RECURSIVE RStrip(_)
RStrip(s) ==
    IF s # <<>> /\ s[Len(s)] \in Whitespace THEN RStrip(SubSeq(s, 1, Len(s) - 1)) ELSE s
Strip(s) == RStrip(LStrip(s))

-----------------------------------------------------------------------------
(* The rewrite engine, as the library sees it: a process that ends with a   *)
(* return code and two captured streams.  The streams are modelled as the   *)
(* texts their UTF-8 decoding gives.                                        *)

\* what the engine may print when asked to rewrite, substitute or tell its version
OutChars == {"a", "\n", "\r"}
Outs == SeqsUpTo(OutChars, MaxOut)

ReturnCodes == {0, 1, 2}
Stderrs == {<<>>, <<"e">>}

\* a run that fails is given no standard output: call never reads it
EngineResults(stdouts) ==
    {r \in [returncode : ReturnCodes, stdout : stdouts, stderr : Stderrs] :
        r.returncode # 0 => r.stdout = <<>>}

NoProc == [returncode |-> 0, stdout |-> <<>>, stderr |-> <<>>]

\* CombyBinary.location and CombyBinary.language: init=False, so always the defaults
location == <<"comby">>
language_default == <<".", "c">>

\* CombyBinary(language=asked), or CombyBinary() when asked is None: the
\* generated __init__ has no parameter for a field declared init=False
CombyBinaryInit(asked) ==
    IF asked.none
    THEN [asked |-> asked, exc |-> "", language |-> language_default]
    ELSE [asked |-> asked, exc |-> "TypeError", language |-> <<>>]

\* subprocess.run(..., check=check): the exception it raises itself, if any
SubprocessRun(check, proc) ==
    IF check /\ proc.returncode # 0
    THEN [type |-> "CalledProcessError", code |-> proc.returncode, message |-> proc.stderr]
    ELSE NoExc

\* the exception CombyBinary.call ends with on a process that ended as proc
CallExc(proc) ==
    LET run == SubprocessRun(TRUE, proc)
    IN  IF run.type # "" THEN run
        ELSE IF proc.returncode # 0
        THEN [type |-> "CombyBinaryError", code |-> proc.returncode, message |-> proc.stderr]
        ELSE NoExc

\* Call with the captured output stripped before it is returned
CallStripping(args, text, proc) ==
    [cmd |-> location \o <<" ">> \o args,
     input |-> IF Truthy(text) THEN text ELSE PyNone,
     exc |-> CallExc(proc),
     alive |-> FALSE,
     value |-> IF CallExc(proc).type # "" THEN <<>> ELSE Strip(proc.stdout)]

\* Call through a process that is started and read, and not waited for
CallNotWaiting(args, text, proc) ==
    [cmd |-> location \o <<" ">> \o args,
     input |-> IF Truthy(text) THEN text ELSE PyNone,
     exc |-> CallExc(proc),
     alive |-> TRUE,
     value |-> IF CallExc(proc).type # "" THEN <<>> ELSE proc.stdout]

\* CombyBinary.call on a process that ends as proc: the command line, the
\* standard input (None unless text is a non-empty str), and the outcome.
\* subprocess.run returns, or raises, once the child has exited.
Call(args, text, proc) ==
    [cmd |-> location \o <<" ">> \o args,
     input |-> IF Truthy(text) THEN text ELSE PyNone,
     exc |-> CallExc(proc),
     alive |-> FALSE,
     value |-> IF CallExc(proc).type # "" THEN <<>> ELSE proc.stdout]

-----------------------------------------------------------------------------
(* CombyBinary: version, rewrite, substitute (src/src/comby/binary.py). *)

\* what the caller passes
Sources == {<<>>, <<"x">>}
Templates == {<<"f">>, <<":", "[", "1", "]">>}
RewriteTemplates == {<<"'", "b">>}
Languages == {PyNone, Some(<<>>), Some(<<".", "p", "y">>)}

\* Optional[dict[str, str]]: None, or the dict's items in its order
ArgsNone == [none |-> TRUE, items |-> <<>>]
ArgsDict(items) == [none |-> FALSE, items |-> items]
ArgsChoices ==
    {ArgsNone, ArgsDict(<<>>), ArgsDict(<< <<(<<"1">>), (<<"a">>)>> >>),
     ArgsDict(<< <<(<<"1">>), (<<"a", "\n">>)>>, <<(<<"2">>), (<<"'">>)>> >>)}

NoArgs ==
    [source |-> <<>>, template |-> <<>>, rewrite |-> <<>>, args |-> ArgsNone,
     diff |-> FALSE, language |-> PyNone, match_newline_at_toplevel |-> FALSE]

\* the language an operation hands to -matcher
LanguageOf(language) == IF Truthy(language) THEN language.s ELSE language_default

\* how an operation that never reached call ends
Raised(type) ==
    [runs |-> 0, cmd |-> <<>>, input |-> PyNone, exc |-> Exc(type), alive |-> FALSE,
     value |-> <<>>]
\* how an operation ends whose last step is a call
Called(c, value) ==
    [runs |-> 1, cmd |-> c.cmd, input |-> c.input, exc |-> c.exc, alive |-> c.alive,
     value |-> IF c.exc.type # "" THEN <<>> ELSE value]

\* CombyBinary.version
VersionOp(proc) ==
    LET c == Call(<<"-version">>, PyNone, proc)
    IN  Called(c, Strip(c.value))

\* a rewrite command line that asks for standard output whatever diff is
RewriteCmdAlwaysStdout(a) ==
    Join(<< <<"-stdin">>, ShlexQuote(a.template), ShlexQuote(a.rewrite),
            <<"-matcher">>, ShlexQuote(LanguageOf(a.language)), <<"-stdout">> >>
         \o (IF a.match_newline_at_toplevel
             THEN << <<"-match-newline-at-toplevel">> >> ELSE <<>>))

\* the command line CombyBinary.rewrite builds
RewriteCmd(a) ==
    Join(<< <<"-stdin">>, ShlexQuote(a.template), ShlexQuote(a.rewrite),
            <<"-matcher">>, ShlexQuote(LanguageOf(a.language)),
            IF a.diff THEN <<"-diff">> ELSE <<"-stdout">> >>
         \o (IF a.match_newline_at_toplevel
             THEN << <<"-match-newline-at-toplevel">> >> ELSE <<>>))

\* rewrite with its args silently ignored
RewriteOpIgnoringArgs(a, proc) ==
    Called(Call(RewriteCmd(a), Some(a.source), proc), proc.stdout)

\* CombyBinary.rewrite
RewriteOp(a, proc) ==
    LET args == IF a.args.none THEN ArgsDict(<<>>) ELSE a.args
    IN  IF args.items # <<>> THEN Raised("NotImplementedError")
        ELSE LET c == Call(RewriteCmd(a), Some(a.source), proc)
             IN  Called(c, c.value)

\* the records of the items taken last item first
RECURSIVE SubstitutionsReversed(_)
SubstitutionsReversed(items) ==
    IF items = <<>> THEN <<>>
    ELSE SubstitutionsReversed(Tail(items))
         \o <<JDict(<< <<"variable">>, <<"value">> >>,
                    <<JStr(Head(items)[1]), JStr(Head(items)[2])>>)>>

\* [{"variable": variable, "value": value} for (variable, value) in args.items()]
RECURSIVE Substitutions(_)
Substitutions(items) ==
    IF items = <<>> THEN <<>>
    ELSE <<JDict(<< <<"variable">>, <<"value">> >>,
                 <<JStr(Head(items)[1]), JStr(Head(items)[2])>>)>>
         \o Substitutions(Tail(items))

\* the command line CombyBinary.substitute builds
SubstituteCmd(a) ==
    Join(<< <<"IGNORE_MATCHED_TEMPLATE">>, ShlexQuote(a.template),
            <<"-matcher">>, ShlexQuote(LanguageOf(a.language)),
            <<"-substitute-only">>,
            ShlexQuote(JsonDumps(JList(Substitutions(a.args.items)))) >>)

\* every trailing line separator removed
StripAllLineSeparators(result, sep) ==
    LET RECURSIVE strip(_)
        strip(r) == IF EndsWith(r, sep) THEN strip(SubSeq(r, 1, Len(r) - Len(sep))) ELSE r
    IN  strip(result)

\* the end of CombyBinary.substitute:
\* if result.endswith(_LINE_SEPARATOR): result = result[:-_LINE_SEPARATOR_LENGTH]
StripLineSeparator(result, sep) ==
    IF EndsWith(result, sep) THEN SubSeq(result, 1, Len(result) - Len(sep)) ELSE result

\* CombyBinary.substitute
SubstituteOp(a, proc) ==
    LET c == Call(SubstituteCmd(a), PyNone, proc)
    IN  Called(c, StripLineSeparator(c.value, linesep))

-----------------------------------------------------------------------------
(* What the engine may print when asked for matches (-json-lines). *)

JLocation(offset, line, column) ==
    JDict(<< <<"offset">>, <<"line">>, <<"column">> >>, <<JInt(offset), JInt(line), JInt(column)>>)
JRange(start, end) == JDict(<< <<"start">>, <<"end">> >>, <<start, end>>)
JBinding(variable, value, range) ==
    JDict(<< <<"variable">>, <<"value">>, <<"range">> >>, <<JStr(variable), JStr(value), range>>)
JMatch(range, environment, matched) ==
    JDict(<< <<"range">>, <<"environment">>, <<"matched">> >>,
          <<range, JList(environment), JStr(matched)>>)

RangeA == JRange(JLocation(0, 1, 1), JLocation(1, 1, 2))
RangeB == JRange(JLocation(1, 1, 2), JLocation(3, 1, 4))
\* a match without bindings, a match with one binding, and a match whose
\* "matched" key is missing
MatchA == JMatch(RangeA, <<>>, <<"a">>)
MatchB == JMatch(RangeB, <<JBinding(<<"1">>, <<"b">>, RangeB)>>, <<"a", "b">>)
MatchNoMatched == JDict(<< <<"range">>, <<"environment">> >>, <<RangeA, JList(<<>>)>>)
JsnMatchPool == {MatchA, MatchB, MatchNoMatched}

\* d without its key k, and d with the value of its key k replaced
DictWithout(d, k) ==
    LET keep == {i \in 1..Len(d.ks) : d.ks[i] # k}
        nth(n) == CHOOSE i \in keep : Cardinality({j \in keep : j < i}) = n - 1
    IN  JDict([n \in 1..Cardinality(keep) |-> d.ks[nth(n)]],
              [n \in 1..Cardinality(keep) |-> d.vs[nth(n)]])
DictWith(d, k, v) ==
    JDict(d.ks, [i \in 1..Len(d.ks) |-> IF d.ks[i] = k THEN v ELSE d.vs[i]])

\* matches in which one required key is absent or holds a value of another
\* primitive type: in a location, in a range, in a binding, in the match
LocationKeys == {<<"line">>, <<"column">>, <<"offset">>}
RangeKeys == {<<"start">>, <<"end">>}
BindingKeys == {<<"variable">>, <<"value">>, <<"range">>}
MatchKeys == {<<"matched">>, <<"range">>, <<"environment">>}
BadLocations ==
    {DictWithout(JLocation(1, 1, 2), k) : k \in LocationKeys}
    \cup {DictWith(JLocation(1, 1, 2), k, JStr(<<"x">>)) : k \in LocationKeys}
BadRanges ==
    {DictWithout(RangeB, k) : k \in RangeKeys}
    \cup {DictWith(RangeB, k, JInt(1)) : k \in RangeKeys}
    \cup {DictWith(RangeB, k, l) : k \in RangeKeys, l \in BadLocations}
BindingB == JBinding(<<"1">>, <<"b">>, RangeB)
BadBindings ==
    {DictWithout(BindingB, k) : k \in BindingKeys}
    \cup {DictWith(BindingB, k, JInt(1)) : k \in BindingKeys}
    \cup {DictWith(BindingB, <<"range">>, r) : r \in BadRanges}
BadEnvironments ==
    {JInt(1), JStr(<<>>), JStr(<<"a">>), JDict(<<>>, <<>>)}
    \cup {JList(<<b>>) : b \in BadBindings}
BadMatches ==
    {DictWithout(MatchB, k) : k \in MatchKeys}
    \cup {DictWith(MatchB, <<"matched">>, JInt(1))}
    \cup {DictWith(MatchB, <<"range">>, r) : r \in {JInt(1)} \cup BadRanges}
    \cup {DictWith(MatchB, <<"environment">>, e) : e \in BadEnvironments}

\* the record the engine prints for one source: {"uri": null, "matches": [...]}
EngineRecord(ms) == JDict(<< <<"uri">>, <<"matches">> >>, <<JNull, JList(ms)>>)
WellFormedDocs ==
    {EngineRecord(ms) : ms \in SeqsUpTo(JsnMatchPool, MaxMatches)}
    \cup {EngineRecord(<<m>>) : m \in BadMatches}
\* JSON texts of another shape
MalformedDocs ==
    {JNull, JInt(0), JList(<<>>), JStr(<<>>),
     JDict(<< <<"uri">> >>, <<JNull>>),
     JDict(<< <<"matches">> >>, <<JDict(<<>>, <<>>)>>),
     JDict(<< <<"matches">> >>, <<JStr(<<>>)>>),
     JDict(<< <<"matches">> >>, <<JInt(1)>>),
     JDict(<< <<"matches">> >>, <<JList(<<JInt(1)>>)>>)}

\* what the server may answer to POST /matches (comby.py): a JSON array of
\* {"environment": {term: {"term", "location", "content"}}, "location": "l:c::l:c"}
HLocA == <<"1", ":", "0", ":", ":", "1", ":", "5">>
HLocB == <<"2", ":", "4", ":", ":", "1", "0", ":", "0">>
HBinding(term, loc, content) ==
    JDict(<< <<"term">>, <<"location">>, <<"content">> >>, <<JStr(term), JStr(loc), JStr(content)>>)
HMatch(ks, bindings, loc) ==
    JDict(<< <<"environment">>, <<"location">> >>, <<JDict(ks, bindings), JStr(loc)>>)
HMatchA == HMatch(<<>>, <<>>, HLocA)
HMatchB == HMatch(<< <<"1">> >>, <<HBinding(<<"1">>, HLocB, <<"b">>)>>, HLocB)
HMatchNoLocation == JDict(<< <<"environment">> >>, <<JDict(<<>>, <<>>)>>)
HttpMatchPool == {HMatchA, HMatchB, HMatchNoLocation}
HttpWellFormedDocs == {JList(ms) : ms \in SeqsUpTo(HttpMatchPool, MaxMatches)}
HttpMalformedDocs ==
    {JNull, JInt(0), JStr(<<>>), JDict(<<>>, <<>>), JDict(<< <<"uri">> >>, <<JNull>>),
     JList(<<JInt(1)>>)}

\* the JSON documents of the model, and the text of each
JsonDocs == WellFormedDocs \cup MalformedDocs \cup HttpWellFormedDocs \cup HttpMalformedDocs
JsonText == [d \in JsonDocs |-> JsonDumps(d)]

\* json.loads: the document whose text this is; a text of no document is rejected
JsonLoads(text) ==
    IF \E d \in JsonDocs : JsonText[d] = text
    THEN Ok(CHOOSE d \in JsonDocs : JsonText[d] = text)
    ELSE Err("JSONDecodeError")

\* standard output of a -match-only run: nothing, a JSON text, or other text
MatchOuts == {<<>>, <<"a">>} \cup {JsonText[d] : d \in WellFormedDocs \cup MalformedDocs}

\* body of the answer to POST /matches
MatchBodies == {<<>>, <<"a">>} \cup {JsonText[d] : d \in HttpWellFormedDocs \cup HttpMalformedDocs}

-----------------------------------------------------------------------------
(* CombyBinary.matches: a generator; its body runs when the caller asks for *)
(* an element.                                                              *)

\* the command line CombyBinary.matches builds
MatchesCmd(a) ==
    Join(<< <<"-stdin">>, <<"-json-lines">>, <<"-match-only">>, <<"-matcher">>,
            ShlexQuote(LanguageOf(a.language)), ShlexQuote(a.template), <<"foo">> >>)

\* the generator's body with json.loads given the text as it is
MatchesItemsNoDefault(out) ==
    Bind(JsonLoads(out), LAMBDA jsn :
    Typechecked(jsn.t = "null" \/ IsConfigJson(jsn),
    IF jsn.t = "null" THEN Ok(<<>>)
    ELSE Bind(PyGet(jsn, <<"matches">>), LAMBDA jsn_matches :
         Typechecked(jsn_matches.t = "null" \/ IsConfigMatches(jsn_matches),
         Check(jsn_matches.t # "null", "TypeError",
         PyIter(jsn_matches))))))

\* the generator's body from the text call returned to its for loop:
\* json.loads(out or "null"), jsn.get("matches"), and the list the loop will
\* draw from (empty when jsn is None)
MatchesItems(out) ==
    Bind(JsonLoads(IF out = <<>> THEN <<"null">> ELSE out), LAMBDA jsn :
    Typechecked(jsn.t = "null" \/ IsConfigJson(jsn),
    IF jsn.t = "null" THEN Ok(<<>>)
    ELSE Bind(PyGet(jsn, <<"matches">>), LAMBDA jsn_matches :
         Typechecked(jsn_matches.t = "null" \/ IsConfigMatches(jsn_matches),
         Check(jsn_matches.t # "null", "TypeError",
         PyIter(jsn_matches))))))

\* a loop that draws from the end of the list
LoopElementFromEnd(items, i) == items[Len(items) + 1 - i]

\* for jsn_match in jsn_matches: the element of the i-th iteration
LoopElement(items, i) ==
    items[i]

Live(state) == state \in {"created", "suspended"}

\* the single caller thread is between operations: no result of the binary
\* client is pending and no HTTP client or server scope is in use
Idle == b_ctor.exc = "" /\ b_op = "" /\ s_pc = "idle" /\ c_pc = "idle"

ResetGenerator ==
    /\ g_state' = "none"
    /\ g_jsn' = <<>>
    /\ g_i' = 1
    /\ g_yielded' = <<>>

Returned(r) ==
    [kind |-> IF r.exc.type # "" THEN "raise" ELSE "return", exc |-> r.exc, value |-> r.value]

\* an operation that ends in one step
Finish(op, a, proc, r) ==
    /\ b_op' = op
    /\ b_args' = a
    /\ b_runs' = r.runs
    /\ b_cmd' = r.cmd
    /\ b_input' = r.input
    /\ b_proc' = IF r.runs = 0 THEN NoProc ELSE proc
    /\ b_alive' = r.alive
    /\ b_out' = Returned(r)
    /\ ResetGenerator
    /\ UNCHANGED <<linesep, typeguard, b_ctor, srvVars, httpVars, dataVars>>

Version ==
    /\ Idle
    /\ \E proc \in EngineResults(Outs) :
        Finish("version", NoArgs, proc, VersionOp(proc))

Rewrite ==
    /\ Idle
    /\ \E source \in Sources, match \in Templates, rewrite \in RewriteTemplates,
       args \in ArgsChoices, diff \in BOOLEAN, language \in Languages,
       match_newline_at_toplevel \in BOOLEAN, proc \in EngineResults(Outs) :
        LET a == [source |-> source, template |-> match, rewrite |-> rewrite,
                  args |-> args, diff |-> diff, language |-> language,
                  match_newline_at_toplevel |-> match_newline_at_toplevel]
        IN  Finish("rewrite", a, proc, RewriteOp(a, proc))

Substitute ==
    /\ Idle
    /\ \E template \in Templates, args \in ArgsChoices \ {ArgsNone},
       language \in Languages, proc \in EngineResults(Outs) :
        LET a == [NoArgs EXCEPT !.template = template, !.args = args,
                                !.language = language]
        IN  Finish("substitute", a, proc, SubstituteOp(a, proc))

\* matches(...) returns a generator and runs nothing yet
Matches ==
    /\ Idle
    /\ \E source \in Sources, template \in Templates, language \in Languages :
        b_args' = [NoArgs EXCEPT !.source = source, !.template = template,
                                 !.language = language]
    /\ b_op' = "matches"
    /\ b_runs' = 0
    /\ b_cmd' = <<>>
    /\ b_input' = PyNone
    /\ b_proc' = NoProc
    /\ b_alive' = FALSE
    /\ b_out' = [kind |-> "generator", exc |-> NoExc, value |-> <<>>]
    /\ g_state' = "created"
    /\ g_jsn' = <<>>
    /\ g_i' = 1
    /\ g_yielded' = <<>>
    /\ UNCHANGED <<linesep, typeguard, b_ctor, srvVars, httpVars, dataVars>>

\* the generator ends by raising exc
GenRaise(exc) ==
    /\ g_state' = "raised"
    /\ b_out' = [kind |-> "raise", exc |-> exc, value |-> <<>>]
    /\ UNCHANGED <<g_i, g_yielded>>

\* the for loop from its next iteration to the next yield, or to its end
LoopStep(items) ==
    IF g_i > Len(items)
    THEN /\ g_state' = "done"
         /\ b_out' = [kind |-> "stop", exc |-> Exc("StopIteration"), value |-> <<>>]
         /\ UNCHANGED <<g_i, g_yielded>>
    ELSE \E m \in {DecodeMatch(LoopElement(items, g_i))} :
            IF m.err # "" THEN GenRaise(Exc(m.err))
            ELSE /\ g_state' = "suspended"
                 /\ b_out' = [kind |-> "yield", exc |-> NoExc, value |-> <<>>]
                 /\ g_i' = g_i + 1
                 /\ g_yielded' = Append(g_yielded, m.val)

\* the caller asks a new generator for its first element: the body runs from
\* its start, through the call of the engine, to the first yield or to its end
GenStart ==
    /\ g_state = "created"
    /\ \E proc \in EngineResults(MatchOuts) :
       \E c \in {Call(MatchesCmd(b_args), Some(b_args.source), proc)} :
        /\ b_runs' = 1
        /\ b_cmd' = c.cmd
        /\ b_input' = c.input
        /\ b_proc' = proc
        /\ b_alive' = c.alive
        /\ IF c.exc.type # ""
           THEN GenRaise(c.exc) /\ g_jsn' = <<>>
           ELSE \E items \in {MatchesItems(c.value)} :
                    IF items.err # ""
                    THEN GenRaise(Exc(items.err)) /\ g_jsn' = <<>>
                    ELSE g_jsn' = items.val /\ LoopStep(items.val)
    /\ UNCHANGED <<linesep, typeguard, b_ctor, b_op, b_args, srvVars, httpVars, dataVars>>

\* the caller asks a suspended generator for its next element
GenNext ==
    /\ g_state = "suspended"
    /\ LoopStep(g_jsn)
    /\ UNCHANGED <<linesep, typeguard, b_ctor, b_op, b_args, b_runs, b_cmd, b_input, b_proc, b_alive, g_jsn,
                   srvVars, httpVars, dataVars>>

\* the caller asks a finished generator for an element: StopIteration
GenNextFinished ==
    /\ g_state \in {"done", "raised", "closed"}
    /\ b_out' = [kind |-> "stop", exc |-> Exc("StopIteration"), value |-> <<>>]
    /\ UNCHANGED <<linesep, typeguard, b_ctor, b_op, b_args, b_runs, b_cmd, b_input, b_proc, b_alive,
                   g_state, g_jsn, g_i, g_yielded, srvVars, httpVars, dataVars>>

\* the caller stops consuming: the generator is closed
GenClose ==
    /\ Live(g_state)
    /\ g_state' = "closed"
    /\ UNCHANGED <<linesep, typeguard, b_ctor, b_op, b_args, b_runs, b_cmd, b_input, b_proc, b_alive, b_out,
                   g_jsn, g_i, g_yielded, srvVars, httpVars, dataVars>>

\* the caller has the result of the operation, or is done with the generator.
\* CombyBinary is a frozen attrs class: nothing of an operation stays behind.
CallerReturns ==
    /\ b_op # ""
    /\ ~Live(g_state)
    /\ b_op' = ""
    /\ b_args' = NoArgs
    /\ b_runs' = 0
    /\ b_cmd' = <<>>
    /\ b_input' = PyNone
    /\ b_proc' = NoProc
    /\ b_alive' = FALSE
    /\ b_out' = [kind |-> "", exc |-> NoExc, value |-> <<>>]
    /\ ResetGenerator
    /\ UNCHANGED <<linesep, typeguard, b_ctor, srvVars, httpVars, dataVars>>

InitBin ==
    /\ linesep \in {<<"\n">>, <<"\r", "\n">>}
    /\ typeguard \in BOOLEAN
    /\ b_ctor = CombyBinaryInit(PyNone)
    /\ b_op = ""
    /\ b_args = NoArgs
    /\ b_runs = 0
    /\ b_cmd = <<>>
    /\ b_input = PyNone
    /\ b_proc = NoProc
    /\ b_alive = FALSE
    /\ b_out = [kind |-> "", exc |-> NoExc, value |-> <<>>]
    /\ g_state = "none"
    /\ g_jsn = <<>>
    /\ g_i = 1
    /\ g_yielded = <<>>

\* timeout: int = 30
DefaultTimeout == 30
\* url of ephemeral_server with the default port
EphemeralUrl == "http://127.0.0.1:8888"
BaseUrls == {EphemeralUrl, "http://localhost:8888"}
\* no Client has been constructed
NoSelf == [base_url |-> "", timeout |-> 0]

InitSrv ==
    /\ s_pc = "idle"
    /\ s_proc = "None"
    /\ s_signals = 0
    /\ s_exit = ""
    /\ s_child = "none"
    /\ c_pc = "idle"
    /\ c_timeout_connection = 0
    /\ c_time_left = 0
    /\ c_elapsed = 0
    /\ c_connected = FALSE
    /\ c_last = ""
    /\ c_self = NoSelf
    /\ c_failed = FALSE

InitHttp ==
    /\ h_req = [path |-> "", payload |-> JNull]
    /\ h_resp = [err |-> "", status_code |-> 0, text |-> <<>>, open |-> FALSE]
    /\ h_out = [kind |-> "", exc |-> NoExc, value |-> <<>>]
    /\ h_state = "none"
    /\ h_jsn = <<>>
    /\ h_i = 0
    /\ h_yielded = <<>>

InitData ==
    /\ d_variant = ""
    /\ d_class = ""
    /\ d_ts = <<>>
    /\ d_made = Ok(JNull)
    /\ d_value = JNull
    /\ d_out = [op |-> "", kind |-> "", exc |-> NoExc, value |-> <<>>]

Init == InitBin /\ InitSrv /\ InitHttp /\ InitData

BinaryKept ==
    UNCHANGED <<linesep, typeguard, b_op, b_args, b_runs, b_cmd, b_input, b_proc, b_alive,
                b_out, g_state, g_jsn, g_i, g_yielded, srvVars, httpVars, dataVars>>

\* the caller constructs a CombyBinary, asking for a default language or not
NewCombyBinary ==
    /\ Idle
    /\ \E asked \in {PyNone, Some(<<".", "p", "y">>)} : b_ctor' = CombyBinaryInit(asked)
    /\ BinaryKept

\* the caller has the exception of a construction that raised, and goes on
\* with the CombyBinary it had
CombyBinaryRaised ==
    /\ b_ctor.exc # ""
    /\ b_ctor' = CombyBinaryInit(PyNone)
    /\ BinaryKept

NextBin ==
    \/ NewCombyBinary
    \/ CombyBinaryRaised
    \/ Version
    \/ Rewrite
    \/ Substitute
    \/ Matches
    \/ GenStart
    \/ GenNext
    \/ GenNextFinished
    \/ GenClose
    \/ CallerReturns

\* the binary client
SpecBin == Init /\ [][NextBin]_vars

-----------------------------------------------------------------------------
(* The data model of src/src/comby.py and its decoders: locations are       *)
(* strings "line:col" and "start::stop", the environment is a JSON object.  *)

Digits == <<"0", "1", "2", "3", "4", "5", "6", "7", "8", "9">>
IsDigit(c) == \E i \in 1..Len(Digits) : Digits[i] = c
DigitValue(c) == (CHOOSE i \in 1..Len(Digits) : Digits[i] = c) - 1

RECURSIVE DigitsValue(_)
DigitsValue(s) ==
    IF s = <<>> THEN 0
    ELSE DigitsValue(SubSeq(s, 1, Len(s) - 1)) * Len(Digits) + DigitValue(s[Len(s)])

\* int(s) of a str: surrounding whitespace ignored, an optional sign, then
\* decimal digits; anything else is a ValueError
PyInt(s) ==
    LET t == Strip(s)
        signed == t # <<>> /\ t[1] \in {"+", "-"}
        digits == IF signed THEN Tail(t) ELSE t
    IN  IF digits = <<>> \/ \E i \in 1..Len(digits) : ~IsDigit(digits[i])
        THEN Err("ValueError")
        ELSE Ok(JInt(IF signed /\ t[1] = "-" THEN 0 - DigitsValue(digits)
                     ELSE DigitsValue(digits)))

\* s.partition(sep): the parts before and after the first occurrence of sep
\* (all of s and "" when sep does not occur)
FindFirst(s, sep) ==
    LET at == {i \in 1..(Len(s) - Len(sep) + 1) : SubSeq(s, i, i + Len(sep) - 1) = sep}
    IN  IF at = {} THEN 0 ELSE CHOOSE i \in at : \A j \in at : i <= j
Partition(s, sep) ==
    LET i == FindFirst(s, sep)
    IN  IF i = 0 THEN [before |-> s, after |-> <<>>]
        ELSE [before |-> SubSeq(s, 1, i - 1), after |-> SubSeq(s, i + Len(sep), Len(s))]

\* Location.from_string (comby.py)
LocationFromString(s) ==
    Bind(PyInt(Partition(s, <<":">>).before), LAMBDA line :
    Bind(PyInt(Partition(s, <<":">>).after), LAMBDA col :
    Ok([line |-> line.n, col |-> col.n])))

\* LocationRange.from_string (comby.py); a value that is no str has no partition
LocationRangeFromString(v) ==
    Check(v.t = "str", "AttributeError",
    Bind(LocationFromString(Partition(v.s, <<":", ":">>).before), LAMBDA loc_start :
    Bind(LocationFromString(Partition(v.s, <<":", ":">>).after), LAMBDA loc_end :
    Ok([start |-> loc_start, stop |-> loc_end]))))

\* BoundTerm.from_dict (comby.py)
BoundTermFromDictHttp(d) ==
    Bind(PyItem(d, <<"term">>), LAMBDA term :
    Bind(PyItem(d, <<"location">>), LAMBDA loc_s :
    Bind(LocationRangeFromString(loc_s), LAMBDA loc :
    Bind(PyItem(d, <<"content">>), LAMBDA content :
    Ok([term |-> term, location |-> loc, fragment |-> content])))))

RECURSIVE BoundTermsFromListHttp(_)
BoundTermsFromListHttp(items) ==
    IF items = <<>> THEN Ok(<<>>)
    ELSE Bind(BoundTermFromDictHttp(Head(items)), LAMBDA bt :
         Bind(BoundTermsFromListHttp(Tail(items)), LAMBDA rest :
         Ok(<<bt>> \o rest)))

\* Environment.from_dict (comby.py): the bindings are d.values()
EnvironmentFromDictHttp(d) ==
    Check(d.t = "dict", "AttributeError",
    Bind(BoundTermsFromListHttp(d.vs), LAMBDA bindings :
    Ok(EnvironmentInit(bindings))))

\* Match.from_dict (comby.py)
MatchFromDictHttp(d) ==
    Bind(PyItem(d, <<"environment">>), LAMBDA env_raw :
    Bind(EnvironmentFromDictHttp(env_raw), LAMBDA environment :
    Bind(PyItem(d, <<"location">>), LAMBDA loc_s :
    Bind(LocationRangeFromString(loc_s), LAMBDA loc :
    Ok([environment |-> environment, location |-> loc])))))

-----------------------------------------------------------------------------
(* Client.__init__ (src/src/comby.py; the same loop is in                   *)
(* src/src/rooibos/__init__.py and src/src/comby/http.py).  Time is counted *)
(* in ticks of 0.05 s, the pause that ends every iteration of the loop.     *)

TicksPerSecond == 20
\* time.sleep(0.05), in ticks
SleepLoop == 1
\* time.sleep(1.0) after a ConnectionError, in ticks
SleepRefused == TicksPerSecond
\* timeout_connection: int = 30, in seconds
DefaultTimeoutConnection == 30
\* the longest a status probe that is answered or refused takes, in ticks
MaxProbeTicks == 0
\* a timeout_connection the caller chooses, in seconds
ShortTimeout == 3

\* float(timeout_connection), in ticks
Ticks(seconds) == seconds * TicksPerSecond

TimeoutChoices == {0 - 1, 0, ShortTimeout, DefaultTimeoutConnection}

Min(a, b) == IF a < b THEN a ELSE b

\* how requests.get(url, timeout=time_left) may end: an answer with a status
\* code, a ConnectionError, or once time_left has passed a Timeout: a
\* ReadTimeout ("Timeout"), or a ConnectTimeout, which requests derives from
\* both ConnectionError and Timeout
ProbeOutcomes(time_left) ==
    [kind : {"204", "500", "ConnectionError"}, took : 0..Min(MaxProbeTicks, time_left)]
    \cup {[kind |-> "Timeout", took |-> time_left],
          [kind |-> "ConnectTimeout", took |-> time_left]}

\* except requests.exceptions.ConnectionError: the first clause, so it takes a
\* ConnectTimeout too
IsConnectionError(kind) == kind \in {"ConnectionError", "ConnectTimeout"}

\* the finally block signalling whether or not proc is set
FinallyUnconditional(proc, how) ==
    /\ s_signals' = s_signals + 1
    /\ s_pc' = "exited"
    /\ s_exit' = how

\* finally: if proc: os.killpg(proc.pid, signal.SIGTERM)
Finally(proc, how) ==
    /\ s_signals' = IF proc # "None" THEN s_signals + 1 ELSE s_signals
    /\ s_pc' = "exited"
    /\ s_exit' = how

\* the constructor raises ConnectionFailure: inside ephemeral_server the
\* finally block runs as the exception leaves the generator
CtorRaises ==
    /\ c_pc' = "failed"
    /\ IF s_pc = "entered" THEN Finally(s_proc, "ConnectionFailure") /\ UNCHANGED s_proc
       ELSE UNCHANGED <<s_pc, s_proc, s_signals, s_exit>>

\* the constructor returns: inside ephemeral_server the Client is yielded and
\* the with-body starts.  The constructor's locals end with it.
CtorReturns ==
    /\ c_pc' = "ready"
    /\ s_pc' = IF s_pc = "entered" THEN "body" ELSE s_pc
    /\ UNCHANGED <<s_proc, s_signals, s_exit>>

\* a budget that an iteration leaves as it was
TimeLeftUnchanged(time_left, elapsed) == time_left

\* time_left -= timer() - time_started: what is subtracted at the end of an
\* iteration is all the time since the constructor started
TimeLeft(time_left, elapsed) ==
    time_left - elapsed

\* the status code that sets connected when any answer counts as ready
AnyStatusReady(kind) == kind \in {"204", "500"}

\* connected = r.status_code == 204
Connected(kind) == kind = "204"

\* Client(base_url, timeout_connection=T) by the caller, without a server of its own
NewClient ==
    /\ Idle
    /\ \E timeout_connection \in TimeoutChoices :
        /\ c_timeout_connection' = Ticks(timeout_connection)
        /\ c_time_left' = Ticks(timeout_connection)
        /\ c_pc' = IF Ticks(timeout_connection) > 0 THEN "loop" ELSE "failed"
    /\ c_elapsed' = 0
    /\ c_connected' = FALSE
    /\ c_last' = ""
    /\ \E base_url \in BaseUrls : c_self' = [base_url |-> base_url, timeout |-> DefaultTimeout]
    /\ UNCHANGED <<c_failed, scopeVars, binVars, httpVars, dataVars>>

\* with ephemeral_server() as client: subprocess.Popen, then Client(url) with
\* the default timeout; when Popen raises, proc is still None in the finally block
EnterScope ==
    /\ Idle
    /\ \E spawned \in BOOLEAN :
        IF spawned
        THEN /\ s_proc' = "Popen"
             /\ s_child' = "running"
             /\ c_self' = [base_url |-> EphemeralUrl, timeout |-> DefaultTimeout]
             /\ s_pc' = "entered"
             /\ c_pc' = "loop"
             /\ c_timeout_connection' = Ticks(DefaultTimeoutConnection)
             /\ c_time_left' = Ticks(DefaultTimeoutConnection)
             /\ UNCHANGED <<s_signals, s_exit>>
        ELSE /\ Finally(s_proc, "OSError")
             /\ UNCHANGED <<s_proc, s_child, c_pc, c_self, c_timeout_connection, c_time_left>>
    /\ c_elapsed' = 0
    /\ c_connected' = FALSE
    /\ c_last' = ""
    /\ UNCHANGED <<c_failed, binVars, httpVars, dataVars>>

\* one iteration of the while loop, and what follows the loop when it ends
CtorIterate ==
    /\ c_pc = "loop"
    /\ c_time_left > 0 /\ ~c_connected
    /\ \E probe \in ProbeOutcomes(c_time_left) :
        /\ c_last' = probe.kind
        /\ IF probe.kind = "Timeout"
           THEN /\ c_elapsed' = c_elapsed + probe.took
                /\ UNCHANGED <<c_time_left, c_connected, c_timeout_connection>>
                /\ CtorRaises
           ELSE \E elapsed \in {c_elapsed + probe.took + SleepLoop
                                + (IF IsConnectionError(probe.kind) THEN SleepRefused ELSE 0)} :
                \E time_left \in {TimeLeft(c_time_left, elapsed)} :
                \E connected \in {IF IsConnectionError(probe.kind) THEN c_connected
                                  ELSE Connected(probe.kind)} :
                    IF time_left > 0 /\ ~connected
                    THEN /\ c_elapsed' = elapsed
                         /\ c_time_left' = time_left
                         /\ c_connected' = connected
                         /\ UNCHANGED <<c_pc, c_timeout_connection, s_pc, s_proc,
                                        s_signals, s_exit>>
                    ELSE IF ~connected
                    THEN /\ c_elapsed' = elapsed
                         /\ c_time_left' = time_left
                         /\ c_connected' = connected
                         /\ UNCHANGED c_timeout_connection
                         /\ CtorRaises
                    ELSE /\ c_elapsed' = 0
                         /\ c_time_left' = 0
                         /\ c_connected' = connected
                         /\ c_timeout_connection' = 0
                         /\ CtorReturns
    /\ UNCHANGED <<s_child, c_self, c_failed, binVars, httpVars, dataVars>>

\* the with-body ends, normally or with an exception: the finally block runs
BodyExit ==
    /\ s_pc = "body"
    /\ h_req.path = ""
    /\ \E how \in {"normal", "exception"} : Finally(s_proc, how)
    /\ UNCHANGED <<s_proc, s_child, c_pc, c_timeout_connection, c_time_left, c_elapsed,
                   c_connected, c_last, c_self, c_failed, binVars, httpVars, dataVars>>

\* the child process ends, of itself or on a signal; nothing in ephemeral_server
\* calls proc.wait() or proc.poll(), so it stays unreaped
ChildExits ==
    /\ s_child = "running"
    /\ s_child' = "zombie"
    /\ UNCHANGED <<s_pc, s_proc, s_signals, s_exit, c_pc, c_timeout_connection,
                   c_time_left, c_elapsed, c_connected, c_last, c_self, c_failed,
                   binVars, httpVars, dataVars>>

\* the caller drops the client (and the scope, once it is exited)
ClientDropped ==
    /\ c_pc \in {"ready", "failed"} \/ s_pc = "exited"
    /\ s_pc \in {"idle", "exited"}
    /\ h_req.path = ""
    /\ s_pc' = "idle"
    /\ s_proc' = "None"
    /\ s_signals' = 0
    /\ s_exit' = ""
    /\ s_child' = "none"
    /\ c_pc' = "idle"
    /\ c_timeout_connection' = 0
    /\ c_time_left' = 0
    /\ c_elapsed' = 0
    /\ c_connected' = FALSE
    /\ c_last' = ""
    /\ c_self' = NoSelf
    /\ c_failed' = FALSE
    /\ UNCHANGED <<binVars, httpVars, dataVars>>

-----------------------------------------------------------------------------
(* Client.matches, Client.substitute, Client.rewrite (src/src/comby.py)      *)

HttpStatusCodes == {200, 500}

\* the bodies a response to substitute or rewrite carries
HttpTexts == {<<>>, <<"a">>, <<"a", "\n">>}

\* how requests.post may end: a ConnectionError, or a response
HttpResults(texts) ==
    [err : {""}, status_code : HttpStatusCodes, text : texts, open : {FALSE}]
    \cup {[err |-> "ConnectionError", status_code |-> 0, text |-> <<>>, open |-> FALSE]}

\* args as the json payload of the request
ArgsJson(args) ==
    IF args.none THEN JNull
    ELSE JDict([i \in 1..Len(args.items) |-> args.items[i][1]],
               [i \in 1..Len(args.items) |-> JStr(args.items[i][2])])

HttpRaised(type) == [kind |-> "raise", exc |-> Exc(type), value |-> <<>>]

\* response = requests.post(url, json=payload)
\* assert response.status_code == 200
\* return response.text
HttpText(resp) ==
    IF resp.err # "" THEN HttpRaised(resp.err)
    ELSE IF resp.status_code # 200 THEN HttpRaised("AssertionError")
    ELSE [kind |-> "return", value |-> resp.text, exc |-> NoExc]

\* a Client that a failed request leaves unusable, its attributes cleared
ClientBrokenByFailure(client, out) ==
    IF out.kind = "raise" THEN [pc |-> "failed", self |-> NoSelf] ELSE client

\* the Client after a request: matches, substitute and rewrite assign nothing
\* to self, however the request ended
ClientAfterRequest(client, out) == client

\* a request of the Client has ended with out
RequestDone(out) ==
    /\ \E after \in {ClientAfterRequest([pc |-> c_pc, self |-> c_self], out)} :
        /\ c_pc' = after.pc
        /\ c_self' = after.self
    /\ c_failed' = (c_failed \/ out.kind = "raise")
    /\ UNCHANGED <<scopeVars, ctorVars>>

\* the client can be used: Client has no state that ends its use
Usable == c_pc = "ready" /\ s_pc \in {"idle", "body", "exited"} /\ h_req.path = ""

HttpSubstitute ==
    /\ Usable
    /\ \E template \in Templates, args \in ArgsChoices \ {ArgsNone},
          resp \in HttpResults(HttpTexts) :
        /\ h_req' = [path |-> "substitute",
                     payload |-> JDict(<<<<"template">>, <<"arguments">>>>,
                                       <<JStr(template), ArgsJson(args)>>)]
        /\ h_resp' = resp
        /\ h_out' = HttpText(resp)
    /\ RequestDone(h_out')
    /\ UNCHANGED <<h_state, h_jsn, h_i, h_yielded, binVars, dataVars>>

HttpRewrite ==
    /\ Usable
    /\ \E source \in Sources, match \in Templates, rewrite \in RewriteTemplates,
          args \in ArgsChoices, resp \in HttpResults(HttpTexts) :
        /\ h_req' = [path |-> "rewrite",
                     payload |-> JDict(<<<<"source">>, <<"match">>, <<"rewrite">>,
                                         <<"arguments">>>>,
                                       <<JStr(source), JStr(match), JStr(rewrite),
                                         IF args.none THEN JDict(<<>>, <<>>)
                                         ELSE ArgsJson(args)>>)]
        /\ h_resp' = resp
        /\ h_out' = HttpText(resp)
    /\ RequestDone(h_out')
    /\ UNCHANGED <<h_state, h_jsn, h_i, h_yielded, binVars, dataVars>>

\* calling matches only creates the generator: nothing is sent yet
HttpMatches ==
    /\ Usable
    /\ \E source \in Sources, template \in Templates :
        h_req' = [path |-> "matches",
                  payload |-> JDict(<<<<"source">>, <<"template">>>>,
                                    <<JStr(source), JStr(template)>>)]
    /\ h_state' = "created"
    /\ UNCHANGED <<h_resp, h_out, h_jsn, h_i, h_yielded, binVars, srvVars, dataVars>>

\* list(reversed(x)) of a decoded body: a list is reversed, a str is reversed
\* into its characters; None and an int are not reversible, and neither is a
\* dict under the interpreters setup.py names (3.5, 3.6)
PyReversed(x) ==
    IF x.t = "list"
    THEN Ok([k \in 1..Len(x.xs) |-> x.xs[Len(x.xs) + 1 - k]])
    ELSE IF x.t = "str"
    THEN Ok([k \in 1..Len(x.s) |-> JStr(<<x.s[Len(x.s) + 1 - k]>>)])
    ELSE Err("TypeError")

\* response = requests.post(url, json=payload)
\* assert response.status_code == 200
\* jsn_matches = list(reversed(response.json()))
HttpMatchesItems(resp) ==
    IF resp.err # "" THEN Err(resp.err)
    ELSE Check(resp.status_code = 200, "AssertionError",
               Bind(JsonLoads(resp.text), LAMBDA jsn : PyReversed(jsn)))

\* pop(0) takes the first element of the list
PopFirst(jsn_matches) == 1

\* jsn_matches.pop() takes the last element of the list
Pop(jsn_matches) == Len(jsn_matches)

Without(xs, k) == [j \in 1..(Len(xs) - 1) |-> IF j < k THEN xs[j] ELSE xs[j + 1]]

HttpGenRaise(type) ==
    /\ h_state' = "raised"
    /\ h_out' = HttpRaised(type)

\* while jsn_matches != []: i += 1; match = Match.from_dict(jsn_matches.pop()); yield match
HttpLoopStep(jsn_matches) ==
    IF jsn_matches = <<>>
    THEN /\ h_state' = "done"
         /\ h_out' = [kind |-> "stop", value |-> <<>>, exc |-> Exc("StopIteration")]
         /\ h_jsn' = jsn_matches
         /\ UNCHANGED <<h_i, h_yielded>>
    ELSE /\ h_i' = h_i + 1
         /\ h_jsn' = Without(jsn_matches, Pop(jsn_matches))
         /\ \E m \in {MatchFromDictHttp(jsn_matches[Pop(jsn_matches)])} :
             IF m.err # ""
             THEN HttpGenRaise(m.err) /\ UNCHANGED h_yielded
             ELSE /\ h_state' = "suspended"
                  /\ h_out' = [kind |-> "yield", value |-> <<>>, exc |-> NoExc]
                  /\ h_yielded' = Append(h_yielded, m.val)

\* the first next(): the request is sent and the loop runs to its first yield
HttpGenStart ==
    /\ h_state = "created"
    /\ \E resp \in HttpResults(MatchBodies) :
        /\ h_resp' = resp
        /\ \E items \in {HttpMatchesItems(resp)} :
            IF items.err # ""
            THEN HttpGenRaise(items.err) /\ UNCHANGED <<h_jsn, h_i, h_yielded>>
            ELSE HttpLoopStep(items.val)
    /\ RequestDone(h_out')
    /\ UNCHANGED <<h_req, binVars, dataVars>>

HttpGenNext ==
    /\ h_state = "suspended"
    /\ HttpLoopStep(h_jsn)
    /\ RequestDone(h_out')
    /\ UNCHANGED <<h_req, h_resp, binVars, dataVars>>

\* next() on a generator that has finished or raised: StopIteration
HttpGenNextFinished ==
    /\ h_state \in {"done", "raised", "closed"}
    /\ h_out' = [kind |-> "stop", value |-> <<>>, exc |-> Exc("StopIteration")]
    /\ UNCHANGED <<h_req, h_resp, h_state, h_jsn, h_i, h_yielded, binVars, srvVars, dataVars>>

\* close() before the generator has finished
HttpGenClose ==
    /\ h_state \in {"created", "suspended"}
    /\ h_state' = "closed"
    /\ UNCHANGED <<h_req, h_resp, h_out, h_jsn, h_i, h_yielded, binVars, srvVars, dataVars>>

\* the caller takes the result and drops the generator
HttpCallerReturns ==
    /\ h_req.path # ""
    /\ h_state \notin {"created", "suspended"}
    /\ h_req' = [path |-> "", payload |-> JNull]
    /\ h_resp' = [err |-> "", status_code |-> 0, text |-> <<>>, open |-> FALSE]
    /\ h_out' = [kind |-> "", exc |-> NoExc, value |-> <<>>]
    /\ h_state' = "none"
    /\ h_jsn' = <<>>
    /\ h_i' = 0
    /\ h_yielded' = <<>>
    /\ UNCHANGED <<binVars, srvVars, dataVars>>

NextSrv ==
    \/ NewClient
    \/ EnterScope
    \/ CtorIterate
    \/ BodyExit
    \/ ChildExits
    \/ ClientDropped
    \/ HttpSubstitute
    \/ HttpRewrite
    \/ HttpMatches
    \/ HttpGenStart
    \/ HttpGenNext
    \/ HttpGenNextFinished
    \/ HttpGenClose
    \/ HttpCallerReturns

SpecSrv == Init /\ [][NextSrv]_vars

Next == NextBin \/ NextSrv

Spec == Init /\ [][Next]_vars

\* the constructor of Client alone, called by the caller.  The loop is
\* straight-line code of the calling thread: requests.get is given a timeout
\* and both sleeps are finite, so an iteration that has begun is carried out.
NextCtor ==
    \/ NewClient
    \/ CtorIterate
    \/ ClientDropped

\* the constructor reads neither os.linesep nor anything typeguard checks:
\* one platform stands for all
InitCtor == Init /\ linesep = <<"\n">> /\ ~typeguard

SpecCtorFair == InitCtor /\ [][NextCtor]_vars /\ WF_vars(CtorIterate)

-----------------------------------------------------------------------------
(* The values of the data model in the caller's hands: Location,            *)
(* LocationRange, BoundTerm, Environment and Match of src/src/comby/core.py, *)
(* src/src/comby.py and src/src/rooibos/__init__.py.                        *)

\* most bindings in one list given to Environment.from_dict
MaxBindings == 3

TermNames == {<<"1">>, <<"2">>}
Fragments == {<<"a">>, <<"b">>}
BindingPool == {JBinding(n, f, RangeB) : n \in TermNames, f \in Fragments}
BindingLists == SeqsUpTo(BindingPool, MaxBindings)

Variants == {"core", "comby", "rooibos"}
Classes == {"Location", "LocationRange", "BoundTerm", "Match"}

\* a value of each class, as the decoders of its module build it
ValueOf(variant, class) ==
    IF variant = "core"
    THEN CASE class = "Location" -> LocationFromDict(JLocation(1, 1, 2))
           [] class = "LocationRange" -> LocationRangeFromDict(RangeB)
           [] class = "BoundTerm" -> BoundTermFromDict(BindingB)
           [] class = "Match" -> DecodeMatch(MatchB)
    ELSE CASE class = "Location" -> LocationFromString(<<"2", ":", "4">>)
           [] class = "LocationRange" -> LocationRangeFromString(JStr(HLocB))
           [] class = "BoundTerm" -> BoundTermFromDictHttp(HBinding(<<"1">>, HLocB, <<"b">>))
           [] class = "Match" -> MatchFromDictHttp(HMatchB)

\* another value of each class, every attribute of which differs
OtherValueOf(variant, class) ==
    IF variant = "core"
    THEN CASE class = "Location" -> LocationFromDict(JLocation(0, 2, 1))
           [] class = "LocationRange" -> LocationRangeFromDict(RangeA)
           [] class = "BoundTerm" -> BoundTermFromDict(JBinding(<<"2">>, <<"a">>, RangeA))
           [] class = "Match" -> DecodeMatch(MatchA)
    ELSE CASE class = "Location" -> LocationFromString(<<"1", ":", "0">>)
           [] class = "LocationRange" -> LocationRangeFromString(JStr(HLocA))
           [] class = "BoundTerm" -> BoundTermFromDictHttp(HBinding(<<"2">>, HLocA, <<"a">>))
           [] class = "Match" -> MatchFromDictHttp(HMatchA)

\* the attributes of each class
Fields(variant, class) ==
    CASE class = "Location" ->
            IF variant = "core" THEN {"line", "col", "offset"} ELSE {"line", "col"}
      [] class = "LocationRange" -> {"start", "stop"}
      [] class = "BoundTerm" -> {"term", "location", "fragment"}
      [] class = "Match" ->
            IF variant = "core" THEN {"matched", "location", "environment"}
            ELSE {"environment", "location"}

\* what obj.field = value does: the attrs classes declared frozen=True raise
\* FrozenInstanceError, the properties of rooibos have no setter, and a class
\* that is neither takes the assignment
SetAttrExc(variant, class) ==
    CASE variant = "core" -> "FrozenInstanceError"
      [] variant = "comby" -> IF class = "Match" THEN "" ELSE "FrozenInstanceError"
      [] variant = "rooibos" -> "AttributeError"

\* Environment.__len__
EnvLen(env) == Len(env)
\* Environment.__iter__: the keys of the dict, in its order
EnvIter(env) == [i \in 1..Len(env) |-> env[i].term]
\* Environment.__getitem__
EnvGetItem(env, term) ==
    IF \E i \in 1..Len(env) : env[i].term = term
    THEN Ok(env[CHOOSE i \in 1..Len(env) : env[i].term = term])
    ELSE Err("KeyError")

DataResult(op, r) ==
    [op |-> op,
     kind |-> IF r.err # "" THEN "raise" ELSE "return",
     exc |-> IF r.err # "" THEN Exc(r.err) ELSE NoExc,
     value |-> r.val]

\* the caller holds no value
NoValue == d_class = ""

\* a value is decoded
NewValue ==
    /\ NoValue
    /\ \E variant \in Variants, class \in Classes :
        /\ d_variant' = variant
        /\ d_class' = class
        /\ \E r \in {ValueOf(variant, class)} :
            /\ d_made' = r
            /\ d_value' = r.val
            /\ d_out' = DataResult("from_dict", r)
    /\ UNCHANGED <<d_ts, binVars, srvVars, httpVars>>

\* Environment.from_dict(ts)
NewEnvironment ==
    /\ NoValue
    /\ \E ts \in BindingLists :
        /\ d_ts' = ts
        /\ \E r \in {EnvironmentFromDict(JList(ts))} :
            /\ d_made' = r
            /\ d_value' = r.val
            /\ d_out' = DataResult("from_dict", r)
    /\ d_variant' = "core"
    /\ d_class' = "Environment"
    /\ UNCHANGED <<binVars, srvVars, httpVars>>

\* len(env), list(env), env[term]
EnvironmentRead ==
    /\ d_class = "Environment"
    /\ d_made.err = ""
    /\ \/ d_out' = DataResult("len", Ok(EnvLen(d_value)))
       \/ d_out' = DataResult("iter", Ok(EnvIter(d_value)))
       \/ \E term \in TermNames \cup {<<"3">>} :
            d_out' = DataResult("getitem", EnvGetItem(d_value, term))
    /\ UNCHANGED <<d_variant, d_class, d_ts, d_made, d_value, binVars, srvVars, httpVars>>

\* obj.field = other.field, by the caller
SetAttr ==
    /\ d_class \in Classes
    /\ d_made.err = ""
    /\ \E field \in Fields(d_variant, d_class) :
        IF SetAttrExc(d_variant, d_class) # ""
        THEN /\ d_out' = DataResult("setattr", Err(SetAttrExc(d_variant, d_class)))
             /\ UNCHANGED d_value
        ELSE /\ d_out' = DataResult("setattr", Ok(JNull))
             /\ d_value' = [d_value EXCEPT ![field] = OtherValueOf(d_variant, d_class).val[field]]
    /\ UNCHANGED <<d_variant, d_class, d_ts, d_made, binVars, srvVars, httpVars>>

\* the caller lets go of the value
DropValue ==
    /\ ~NoValue
    /\ d_variant' = ""
    /\ d_class' = ""
    /\ d_ts' = <<>>
    /\ d_made' = Ok(JNull)
    /\ d_value' = JNull
    /\ d_out' = [op |-> "", kind |-> "", exc |-> NoExc, value |-> <<>>]
    /\ UNCHANGED <<binVars, srvVars, httpVars>>

\* Location.__init__ of rooibos: its two assertions
RooibosLocationInit(line, col) ==
    Check(line > 0, "AssertionError",
    Check(col >= 0, "AssertionError",
    Ok([line |-> line, col |-> col])))

\* Location.from_string of rooibos
RooibosLocationFromString(s) ==
    Bind(PyInt(Partition(s, <<":">>).before), LAMBDA line :
    Bind(PyInt(Partition(s, <<":">>).after), LAMBDA col :
    RooibosLocationInit(line.n, col.n)))

\* what a Location is decoded from: objects of the engine, line:col strings
LocationDicts ==
    {JLocation(offset, line, column) : offset \in {0 - 1, 0, 3}, line \in {0, 1},
                                        column \in {0, 2}}
LocationStrings ==
    {<<"1", ":", "0">>, <<"0", ":", "0">>, <<"2", ":", "1", "0">>, <<"-", "1", ":", "3">>,
     <<"1", "0", ":", "4">>, <<"x">>, <<"1">>}

\* what a LocationRange is decoded from
RangeDicts ==
    LET locs == {JLocation(0, 1, 0), JLocation(3, 1, 3), JLocation(5, 2, 0)}
    IN  {JRange(start, end) : start \in locs, end \in locs}
RangeStrings ==
    {HLocA, HLocB, <<"1", ":", "5", ":", ":", "1", ":", "0">>,
     <<"2", ":", "0", ":", ":", "1", ":", "9">>, <<"1", ":", "0">>}

\* matches with two bindings, the term 2 bound before the term 1
MatchTwo ==
    JMatch(RangeB, <<JBinding(<<"2">>, <<"a">>, RangeA), JBinding(<<"1">>, <<"b">>, RangeB)>>,
           <<"a", "b">>)
HMatchTwo ==
    HMatch(<< <<"2">>, <<"1">> >>,
           <<HBinding(<<"2">>, HLocA, <<"a">>), HBinding(<<"1">>, HLocB, <<"b">>)>>, HLocB)

\* the decodings of a class a module offers, each with what it was given
Decodings(variant, class) ==
    CASE class = "Location" /\ variant = "core" ->
            {<<d, LocationFromDict(d)>> : d \in LocationDicts}
      [] class = "Location" /\ variant = "comby" ->
            {<<x, LocationFromString(x)>> : x \in LocationStrings}
      [] class = "Location" /\ variant = "rooibos" ->
            {<<x, RooibosLocationFromString(x)>> : x \in LocationStrings}
      [] class = "LocationRange" /\ variant = "core" ->
            {<<d, LocationRangeFromDict(d)>> : d \in RangeDicts}
      [] class = "LocationRange" /\ variant = "comby" ->
            {<<x, LocationRangeFromString(JStr(x))>> : x \in RangeStrings}
      [] class = "Match" /\ variant = "core" ->
            {<<m, DecodeMatch(m)>> : m \in {MatchA, MatchB, MatchTwo}}
      [] class = "Match" /\ variant = "comby" ->
            {<<m, MatchFromDictHttp(m)>> : m \in {HMatchA, HMatchB, HMatchTwo}}
      [] OTHER -> {}

\* a Location, a LocationRange or a Match is decoded from what the engine sent
Decode ==
    /\ NoValue
    /\ \E variant \in Variants, class \in {"Location", "LocationRange", "Match"} :
       \E made \in Decodings(variant, class) :
        /\ d_variant' = variant
        /\ d_class' = class
        /\ d_ts' = <<made[1]>>
        /\ d_made' = made[2]
        /\ d_value' = made[2].val
        /\ d_out' = DataResult("decode", made[2])
    /\ UNCHANGED <<binVars, srvVars, httpVars>>

\* str(n) of an int: a minus sign when negative, then its decimal digits
RECURSIVE NatStr(_)
NatStr(n) ==
    IF n < Len(Digits) THEN <<Digits[n + 1]>>
    ELSE NatStr(n \div Len(Digits)) \o <<Digits[(n % Len(Digits)) + 1]>>
IntStr(n) == IF n < 0 THEN <<"-">> \o NatStr(0 - n) ELSE NatStr(n)

\* a description that counts lines and columns from one
LocationStrOneIndexed(l) == IntStr(l.line + 1) \o <<":">> \o IntStr(l.col + 1)

\* Location.__str__ (comby.py): "{}:{}".format(self.line, self.col)
LocationStr(l) ==
    IntStr(l.line) \o <<":">> \o IntStr(l.col)

\* LocationRange.__str__ (comby.py): "{}::{}".format(self.start, self.stop)
LocationRangeStr(r) ==
    LocationStr(r.start) \o <<":", ":">> \o LocationStr(r.stop)

\* str(value) of a Location or LocationRange of comby.py
Str ==
    /\ d_variant = "comby"
    /\ d_class \in {"Location", "LocationRange"}
    /\ d_made.err = ""
    /\ d_out' = DataResult("str", Ok(IF d_class = "Location" THEN LocationStr(d_value)
                                     ELSE LocationRangeStr(d_value)))
    /\ UNCHANGED <<d_variant, d_class, d_ts, d_made, d_value, binVars, srvVars, httpVars>>

\* type(value).from_string(str(value))
FromStringOfStr ==
    /\ d_variant = "comby"
    /\ d_class \in {"Location", "LocationRange"}
    /\ d_made.err = ""
    /\ d_out' = DataResult("from_string",
                           IF d_class = "Location"
                           THEN LocationFromString(LocationStr(d_value))
                           ELSE LocationRangeFromString(JStr(LocationRangeStr(d_value))))
    /\ UNCHANGED <<d_variant, d_class, d_ts, d_made, d_value, binVars, srvVars, httpVars>>

\* the names in the order opposite to the environment's
MatchIterReversed(m) ==
    [i \in 1..Len(m.environment) |-> m.environment[Len(m.environment) + 1 - i].term]

\* Match.__len__: return len(self.environment)
MatchLen(m) == EnvLen(m.environment)

\* Match.__iter__: yield from self.environment
MatchIter(m) ==
    EnvIter(m.environment)

\* Match.__getitem__: return self.environment[term]
MatchGetItem(m, term) == EnvGetItem(m.environment, term)

\* a term name as the module keeps it
TermKey(variant, name) == IF variant = "core" THEN name ELSE JStr(name)

\* len(m), list(m), m[term] of a Match
MatchRead ==
    /\ d_class = "Match"
    /\ d_variant \in {"core", "comby"}
    /\ d_made.err = ""
    /\ \/ d_out' = DataResult("match_len", Ok(MatchLen(d_value)))
       \/ d_out' = DataResult("match_iter", Ok(MatchIter(d_value)))
       \/ \E name \in TermNames \cup {<<"3">>} :
          \E r \in {MatchGetItem(d_value, TermKey(d_variant, name))} :
            d_out' = DataResult("match_getitem",
                                [r EXCEPT !.val = [term |-> TermKey(d_variant, name),
                                                   item |-> r.val]])
    /\ UNCHANGED <<d_variant, d_class, d_ts, d_made, d_value, binVars, srvVars, httpVars>>

NextData ==
    \/ NewValue
    \/ Decode
    \/ MatchRead
    \/ Str
    \/ FromStringOfStr
    \/ NewEnvironment
    \/ EnvironmentRead
    \/ SetAttr
    \/ DropValue

SpecData == Init /\ [][NextData]_vars

-----------------------------------------------------------------------------
(* Properties of CombyBinary (src/src/comby/binary.py)                      *)

\* C1: whenever the engine process of an operation exited with a non-zero code,
\* the operation fails with CombyBinaryError whose code is the exit code and
\* whose message is the captured standard error.
NonZeroExitRaisesCombyBinaryError ==
    (b_runs = 1 /\ b_proc.returncode # 0 /\ b_out.kind # "stop")
    => /\ b_out.kind = "raise"
       /\ b_out.exc = [type |-> "CombyBinaryError", code |-> b_proc.returncode,
                       message |-> b_proc.stderr]

\* C5: rewrite with a non-empty args mapping fails with NotImplementedError and
\* no engine process has been invoked; with args None or empty the engine is invoked.
RewriteArgsUnsupported ==
    b_op = "rewrite"
    => IF ~b_args.args.none /\ b_args.args.items # <<>>
       THEN /\ b_out.kind = "raise"
            /\ b_out.exc.type = "NotImplementedError"
            /\ b_runs = 0
            /\ b_cmd = <<>>
       ELSE /\ b_runs = 1
            /\ b_cmd # <<>>

RewriteArgsRejected ==
    /\ b_op = "rewrite"
    /\ Len(b_args.args.items) = 2
    /\ b_out.exc.type = "NotImplementedError"
    /\ b_runs = 0

\* C6: the result of substitute is the engine's output with exactly one
\* trailing line separator removed when the output ends with one, and the
\* output unchanged when it does not.
SubstituteStripsOneLineSeparator ==
    (b_op = "substitute" /\ b_out.kind = "return")
    => IF EndsWith(b_proc.stdout, linesep)
       THEN b_out.value \o linesep = b_proc.stdout
       ELSE b_out.value = b_proc.stdout

SubstituteKeepsSecondSeparator ==
    /\ b_op = "substitute"
    /\ b_out.kind = "return"
    /\ EndsWith(b_proc.stdout, linesep \o linesep)
    /\ EndsWith(b_out.value, linesep)
    /\ Len(b_out.value) = Len(b_proc.stdout) - Len(linesep)

\* C7: when the engine exits with code zero, rewrite returns exactly the
\* engine's standard output.
RewriteReturnsStdoutVerbatim ==
    (b_op = "rewrite" /\ b_runs = 1 /\ b_proc.returncode = 0)
    => /\ b_out.kind = "return"
       /\ b_out.value = b_proc.stdout

RewriteKeepsTrailingSeparator ==
    /\ b_op = "rewrite"
    /\ b_runs = 1
    /\ b_proc.returncode = 0
    /\ b_out.kind = "return"
    /\ Len(b_proc.stdout) > Len(linesep)
    /\ EndsWith(b_out.value, linesep)

\* what the engine prints when it finds no match
NoMatchOuts == {<<>>, JsonText[EngineRecord(<<>>)]}

\* C9: when the engine exits with code zero and prints nothing or a record with
\* an empty matches list, consuming the sequence yields no element and raises
\* no error.
NoMatchYieldsNothing ==
    (b_op = "matches" /\ b_runs = 1 /\ b_proc.returncode = 0
     /\ b_proc.stdout \in NoMatchOuts)
    => /\ g_state = "done"
       /\ g_yielded = <<>>
       /\ b_out.kind = "stop"

NoOutputConsumed ==
    /\ b_op = "matches"
    /\ b_runs = 1
    /\ b_proc.returncode = 0
    /\ b_proc.stdout = <<>>
    /\ g_state = "done"
    /\ g_yielded = <<>>

-----------------------------------------------------------------------------
(* Properties of ephemeral_server and Client.__init__ (src/src/comby.py)    *)

\* C2: when the child process was spawned, its process group has been
\* signalled exactly once after the scope is left, however it is left, and not
\* before; when spawning failed, no signal is sent.
ProcessGroupSignalledOnce ==
    /\ s_pc \in {"entered", "body"} => s_proc = "Popen" /\ s_signals = 0
    /\ s_pc = "exited" => s_signals = (IF s_proc = "Popen" THEN 1 ELSE 0)
    /\ s_pc = "exited" => (s_proc = "Popen" <=> s_exit # "OSError")

ScopeLeftByConnectionFailure ==
    /\ s_pc = "exited"
    /\ s_exit = "ConnectionFailure"
    /\ s_proc = "Popen"
    /\ s_signals = 1

\* C3: the constructor raises ConnectionFailure only once at least
\* timeout_connection has passed since it started.
ConnectionFailureOnlyAfterTimeout ==
    c_pc = "failed" => c_elapsed >= c_timeout_connection

\* C4: the constructor returns normally if and only if the last status probe
\* it made was answered with status 204, and a request is only issued on a
\* Client whose constructor returned.
ReadyIffLastProbe204 ==
    /\ c_pc = "ready" => c_last = "204"
    /\ c_pc \in {"loop", "failed"} => c_last # "204"
    /\ h_req.path # "" => c_pc = "ready" /\ c_last = "204"

RequestOnReadyClient ==
    /\ h_req.path = "rewrite"
    /\ h_out.kind = "return"
    /\ c_pc = "ready"
    /\ c_last = "204"

-----------------------------------------------------------------------------
(* Properties of matches, binary and HTTP                                   *)

\* the lists of well-formed matches an engine may report
BinaryMatchLists == SeqsUpTo({MatchA, MatchB}, MaxMatches)
HttpMatchLists == SeqsUpTo({HMatchA, HMatchB}, MaxMatches)

\* C8: for a well-formed response listing n matches, the elements yielded so
\* far are the decoded matches of the response in its order, and when the
\* sequence is fully consumed there are exactly n of them.
MatchesYieldedInEngineOrder ==
    /\ \A ms \in BinaryMatchLists :
        (b_op = "matches" /\ b_runs = 1 /\ b_proc.returncode = 0
         /\ b_proc.stdout = JsonText[EngineRecord(ms)])
        => /\ g_state # "raised"
           /\ Len(g_yielded) <= Len(ms)
           /\ \A i \in 1..Len(g_yielded) : Ok(g_yielded[i]) = DecodeMatch(ms[i])
           /\ g_state = "done" => Len(g_yielded) = Len(ms)
    /\ \A ms \in HttpMatchLists :
        (h_req.path = "matches" /\ h_resp.err = "" /\ h_resp.status_code = 200
         /\ h_resp.text = JsonText[JList(ms)] /\ h_state # "created")
        => /\ h_state # "raised"
           /\ Len(h_yielded) <= Len(ms)
           /\ \A i \in 1..Len(h_yielded) : Ok(h_yielded[i]) = MatchFromDictHttp(ms[i])
           /\ h_state = "done" => Len(h_yielded) = Len(ms)

TwoHttpMatchesConsumed ==
    /\ h_req.path = "matches"
    /\ h_resp.text = JsonText[JList(<<HMatchA, HMatchB>>)]
    /\ h_state = "done"
    /\ Len(h_yielded) = 2
    /\ h_yielded[1] # h_yielded[2]

\* responses that are not of the expected shape: for the binary, neither empty
\* output nor a JSON object with a matches list; for HTTP, not a JSON array
BinaryUnexpectedOuts ==
    {<<"a">>} \cup
    {JsonText[d] : d \in {m \in MalformedDocs :
        ~(m.t = "dict" /\ HasKey(m, <<"matches">>) /\ DictGet(m, <<"matches">>).t = "list")}}
HttpUnexpectedBodies ==
    {<<>>, <<"a">>} \cup {JsonText[d] : d \in {m \in HttpMalformedDocs : m.t # "list"}}

\* C10: a response that is not of the expected shape never produces a cleanly
\* empty sequence: consuming the sequence fails with an error.
UnexpectedShapeIsAnError ==
    /\ (b_op = "matches" /\ b_runs = 1 /\ b_proc.returncode = 0
        /\ b_proc.stdout \in BinaryUnexpectedOuts)
       => g_state = "raised"
    /\ (h_req.path = "matches" /\ h_resp.err = "" /\ h_resp.status_code = 200
        /\ h_resp.text \in HttpUnexpectedBodies /\ h_state # "created")
       => h_state = "raised"

-----------------------------------------------------------------------------
(* Properties of the decoders (src/src/comby/core.py)                       *)

\* what the engine prints when it reports one match with a bad key
BadMatchOuts == {JsonText[EngineRecord(<<m>>)] : m \in BadMatches}

\* C11: when a required key of a reported match (line, column, offset, start,
\* end, variable, value, range, matched, environment) is absent or holds a
\* value of the wrong primitive type, decoding fails with an error and no
\* Match is produced.
BadKeyFailsDecoding ==
    (b_op = "matches" /\ b_runs = 1 /\ b_proc.returncode = 0
     /\ b_proc.stdout \in BadMatchOuts)
    => /\ g_state = "raised"
       /\ g_yielded = <<>>

-----------------------------------------------------------------------------
(* Properties of the errors the clients raise                               *)

\* C12: every failure that matches, rewrite, substitute, version or the Client
\* constructor surfaces to the caller is an instance of the library's base
\* error class, CombyExceptionError (CombyException in comby.py).
AllFailuresAreCombyErrors ==
    /\ (b_out.kind = "raise") => "CombyExceptionError" \in Bases(b_out.exc.type)
    /\ (h_out.kind = "raise") => "CombyException" \in Bases(h_out.exc.type)
    /\ (c_pc = "failed") => "CombyException" \in Bases("ConnectionFailure")

-----------------------------------------------------------------------------
(* Properties of the data model (src/src/comby/core.py, src/src/comby.py,   *)
(* src/src/rooibos/__init__.py)                                             *)

\* the name of the term of a binding as the engine writes it
VariableOf(bt) == PyItem(bt, <<"variable">>).val.s
\* the names of a list, each once, at the place of its first occurrence
RECURSIVE FirstOccurrences(_)
FirstOccurrences(names) ==
    IF names = <<>> THEN <<>>
    ELSE LET front == FirstOccurrences(SubSeq(names, 1, Len(names) - 1))
             name == names[Len(names)]
         IN  IF \E i \in 1..Len(front) : front[i] = name THEN front
             ELSE Append(front, name)

\* C13: an Environment built from a list of bindings, repeated names included,
\* is built without an error, holds one entry for each distinct name, has the
\* number of distinct names as its length, and looks a name up to the last
\* binding of the list that has it.
EnvironmentKeepsLastBinding ==
    (d_class = "Environment") =>
        /\ d_made.err = ""
        /\ \A i, j \in 1..Len(d_value) : d_value[i].term = d_value[j].term => i = j
        /\ EnvLen(d_value) = Cardinality({VariableOf(d_ts[i]) : i \in 1..Len(d_ts)})
        /\ \A i \in 1..Len(d_ts) :
            (\A j \in (i + 1)..Len(d_ts) : VariableOf(d_ts[j]) # VariableOf(d_ts[i]))
            => EnvGetItem(d_value, VariableOf(d_ts[i])) = BoundTermFromDict(d_ts[i])

\* a name bound twice to different fragments has been looked up
RepeatedNameLookedUp ==
    /\ d_class = "Environment"
    /\ Len(d_ts) = 3
    /\ [i \in 1..3 |-> VariableOf(d_ts[i])] = << <<"1">>, <<"2">>, <<"1">> >>
    /\ d_ts[1] # d_ts[3]
    /\ d_out.op = "getitem"
    /\ d_out.kind = "return"
    /\ d_out.value.term = <<"1">>
    /\ d_out.value = BoundTermFromDict(d_ts[3]).val
    /\ EnvLen(d_value) = 2

\* C14: iterating an Environment yields the names of its terms in the order
\* the bindings were given, a repeated name once, at the place of its first
\* occurrence.
IterationInInsertionOrder ==
    (d_class = "Environment" /\ d_made.err = "") =>
        EnvIter(d_value) = FirstOccurrences([i \in 1..Len(d_ts) |-> VariableOf(d_ts[i])])

\* an Environment with a repeated name has been iterated
RepeatedNameIterated ==
    /\ d_class = "Environment"
    /\ [i \in 1..Len(d_ts) |-> VariableOf(d_ts[i])] = << <<"1">>, <<"2">>, <<"1">> >>
    /\ d_out.op = "iter"
    /\ d_out.value = << <<"1">>, <<"2">> >>

\* C15: a Location, LocationRange, BoundTerm, Environment or Match of any of
\* the three modules is the value it was constructed as, whatever the library
\* and the caller did since, attribute assignments by the caller included.
ValuesNeverChange ==
    (d_class # "") => d_value = d_made.val

-----------------------------------------------------------------------------
(* Properties of the scope of ephemeral_server and of the Client after it   *)

NoResponse == [err |-> "", status_code |-> 0, text |-> <<>>, open |-> FALSE]

\* C16: once the scope of ephemeral_server has been left and the process group
\* of the child signaled, a call of matches, rewrite or substitute on its
\* Client fails, and no request is sent for it.
ClosedClientFailsWithoutRequest ==
    (s_pc = "exited" /\ s_signals = 1 /\ c_pc = "ready") =>
        /\ h_resp = NoResponse
        /\ (h_req.path \in {"substitute", "rewrite"}) => h_out.kind = "raise"
        /\ (h_req.path = "matches") => h_yielded = <<>>

\* C17: when the with statement of ephemeral_server has been left, normally or
\* by an exception, and a child had been started, the child is not running any
\* more.
ChildExitedWhenScopeLeft ==
    (s_pc = "exited" /\ s_proc = "Popen") => s_child # "running"

\* C18: a request of a Ready Client that fails (a status other than 200, a
\* transport error, an error in decoding the response) leaves the Client
\* Ready with the base_url and timeout it had, so that later calls are carried
\* out as on a Client no request of which has failed.
FailedRequestLeavesClientReady ==
    [][(c_pc = "ready" /\ h_out' # h_out /\ h_out'.kind = "raise")
       => (c_pc' = "ready" /\ c_self' = c_self)]_vars

\* a request has returned a result on a Client an earlier request of which failed
RequestServedAfterFailure ==
    /\ c_failed
    /\ c_pc = "ready"
    /\ c_self.base_url \in BaseUrls
    /\ h_req.path = "substitute"
    /\ h_out.kind = "return"

-----------------------------------------------------------------------------
(* Properties of matches as a lazy sequence, in both variants               *)

\* C19: in matches of CombyBinary and of Client the engine round trip is over
\* (the engine process has exited, the response has been read and released)
\* before the first Match is yielded, so that whenever the caller stops
\* consuming, no engine process is running and no response is open.
RoundTripOverBeforeFirstMatch ==
    /\ (b_op = "matches") => ~b_alive
    /\ (g_yielded # <<>>) => (b_runs = 1 /\ b_proc.returncode = 0)
    /\ (h_req.path = "matches") => ~h_resp.open
    /\ (h_yielded # <<>>) => (h_resp.status_code = 200 /\ ~h_resp.open)

\* the caller has stopped after the first of two matches
StoppedAfterFirstMatch ==
    /\ b_op = "matches"
    /\ g_state = "closed"
    /\ Len(g_yielded) = 1
    /\ Len(g_jsn) = 2

-----------------------------------------------------------------------------
(* Properties of the language CombyBinary hands to the engine               *)

\* the word that follows -matcher on a command line
AfterMatcher(cmd) ==
    LET i == CHOOSE k \in 1..Len(cmd) : cmd[k] = "-matcher"
        ends == {k \in (i + 2)..(Len(cmd) + 1) : k = Len(cmd) + 1 \/ cmd[k] = " "}
        j == CHOOSE k \in ends : \A l \in ends : k <= l
    IN  SubSeq(cmd, i + 2, j - 1)

\* C20: in matches, rewrite and substitute of CombyBinary the value after
\* -matcher is the language the caller gave when one was given and the default
\* of the client otherwise; a caller that asks for a default language when
\* constructing the client gets a client with that default, and the default
\* is .c when none was asked for.
MatcherIsCallersOrConfiguredLanguage ==
    /\ (b_op \in {"matches", "rewrite", "substitute"} /\ b_runs = 1) =>
            AfterMatcher(b_cmd) = ShlexQuote(IF b_args.language.none THEN b_ctor.language
                                             ELSE b_args.language.s)
    /\ b_ctor.language = IF b_ctor.asked.none THEN <<".", "c">> ELSE b_ctor.asked.s
    /\ b_ctor.exc = ""

-----------------------------------------------------------------------------
(* Properties of the command line and standard input of CombyBinary         *)

\* the words of a command line
Words(cmd) == {cmd[k] : k \in 1..Len(cmd)}

\* C21: when matches or rewrite of CombyBinary has run the engine, the command
\* line has -stdin and the standard input of the child is the source text the
\* caller gave, the empty source included.
SourceSuppliedOnStandardInput ==
    (b_op \in {"matches", "rewrite"} /\ b_runs = 1) =>
        /\ "-stdin" \in Words(b_cmd)
        /\ b_input = Some(b_args.source)

\* the characters a POSIX shell gives a meaning to outside quotes, and inside
\* double quotes
ShellSpecial == {"\n", ";", "&", "|", "<", ">", "(", ")", "$", "\\", "*", "?",
                 "[", "]", "{", "}", "~", "#", "!"}
ShellSpecialInDouble == {"$", "\\", "!"}
ShellError == << <<"error">> >>

\* the first index from i on at which cmd has one of the characters, or
\* Len(cmd) + 1
NextOf(cmd, i, chars) ==
    LET at == {k \in i..Len(cmd) : cmd[k] \in chars}
    IN  IF at = {} THEN Len(cmd) + 1 ELSE CHOOSE k \in at : \A l \in at : k <= l

HasAny(s, chars) == \E k \in 1..Len(s) : s[k] \in chars

\* the words sh -c splits a command line into, from index i on and outside
\* quotes, with cur the word begun (inword) and words the words before it: a
\* blank ends a word, a quote opens a quoted stretch that runs to the next
\* quote of its kind, anything else runs to the next blank or quote.  A
\* character with a meaning to the shell where it stands, or a quote left
\* open at the end, is an error.
RECURSIVE ShellSplit(_, _, _, _, _)
ShellSplit(cmd, i, inword, cur, words) ==
    IF i > Len(cmd) THEN (IF inword THEN Append(words, cur) ELSE words)
    ELSE IF cmd[i] \in {" ", "\t"}
    THEN ShellSplit(cmd, i + 1, FALSE, <<>>, IF inword THEN Append(words, cur) ELSE words)
    ELSE IF cmd[i] = "'"
    THEN LET j == NextOf(cmd, i + 1, {"'"})
         IN  IF j > Len(cmd) THEN ShellError
             ELSE ShellSplit(cmd, j + 1, TRUE, cur \o SubSeq(cmd, i + 1, j - 1), words)
    ELSE IF cmd[i] = "\""
    THEN LET j == NextOf(cmd, i + 1, {"\""})
         IN  IF j > Len(cmd) \/ HasAny(SubSeq(cmd, i + 1, j - 1), ShellSpecialInDouble)
             THEN ShellError
             ELSE ShellSplit(cmd, j + 1, TRUE, cur \o SubSeq(cmd, i + 1, j - 1), words)
    ELSE LET j == NextOf(cmd, i, {" ", "\t", "'", "\""})
         IN  IF HasAny(SubSeq(cmd, i, j - 1), ShellSpecial) THEN ShellError
             ELSE ShellSplit(cmd, j, TRUE, cur \o SubSeq(cmd, i, j - 1), words)

ShellWords(cmd) == ShellSplit(cmd, 1, FALSE, <<>>, <<>>)

\* the words the engine is to receive from an operation with the arguments a
EngineWords(op, a) ==
    CASE op = "matches" ->
            << <<"comby">>, <<"-stdin">>, <<"-json-lines">>, <<"-match-only">>,
               <<"-matcher">>, LanguageOf(a.language), a.template, <<"foo">> >>
      [] op = "rewrite" ->
            << <<"comby">>, <<"-stdin">>, a.template, a.rewrite, <<"-matcher">>,
               LanguageOf(a.language), IF a.diff THEN <<"-diff">> ELSE <<"-stdout">> >>
            \o (IF a.match_newline_at_toplevel
                THEN << <<"-match-newline-at-toplevel">> >> ELSE <<>>)
      [] op = "substitute" ->
            << <<"comby">>, <<"IGNORE_MATCHED_TEMPLATE">>, a.template, <<"-matcher">>,
               LanguageOf(a.language), <<"-substitute-only">>,
               JsonDumps(JList(Substitutions(a.args.items))) >>

\* C22: the command line matches, rewrite and substitute of CombyBinary hand to
\* the shell is split by the shell into the flags and the caller's strings
\* (match template, rewrite template, language, encoded substitutions) as the
\* caller gave them: each was escaped exactly once, none reaches the shell
\* unescaped.
CallerStringsEscapedOnce ==
    (b_op \in {"matches", "rewrite", "substitute"} /\ b_runs = 1) =>
        ShellWords(b_cmd) = EngineWords(b_op, b_args)

\* a rewrite has run whose rewrite template holds a quote and whose match
\* template holds brackets
QuotedTemplatesRun ==
    /\ b_op = "rewrite"
    /\ b_runs = 1
    /\ b_args.template = <<":", "[", "1", "]">>
    /\ b_args.rewrite = <<"'", "b">>
    /\ ShellWords(b_cmd)[4] = <<"'", "b">>

-----------------------------------------------------------------------------
(* Properties of the Locations and LocationRanges the library decodes       *)

\* C23: a Location the library has decoded has an offset of at least 0 where
\* it has an offset (core.py), and a line and a column of at least 1 in the
\* one-indexed module (rooibos); what does not fit is rejected, not decoded.
DecodedLocationInBounds ==
    (d_class = "Location" /\ d_made.err = "") =>
        /\ (d_variant = "core") => d_made.val.offset.n >= 0
        /\ (d_variant = "rooibos") => (d_made.val.line >= 1 /\ d_made.val.col >= 1)

\* a position of a document comes before another, or is the same
NotAfter(variant, start, stop) ==
    IF variant = "core"
    THEN start.offset.n <= stop.offset.n
    ELSE start.line < stop.line \/ (start.line = stop.line /\ start.col <= stop.col)

\* C24: a LocationRange the library has decoded from a start/end object or a
\* start::stop string has its stop at or after its start; a range whose end
\* comes before its start is rejected, not decoded.
DecodedRangeInOrder ==
    (d_class = "LocationRange" /\ d_made.err = "") =>
        NotAfter(d_variant, d_made.val.start, d_made.val.stop)

\* how many of the words are the word x
Count(words, x) == Cardinality({k \in 1..Len(words) : words[k] = x})

\* C25: the command rewrite of CombyBinary runs has exactly one of -diff and
\* -stdout, -diff exactly when diff was asked for; it has
\* -match-newline-at-toplevel exactly when that flag was set; and it always
\* has -stdin, the match template, the rewrite template, and -matcher
\* followed by a language.
RewriteCommandFlags ==
    (b_op = "rewrite" /\ b_runs = 1) =>
        LET w == ShellWords(b_cmd)
        IN  /\ Count(w, <<"-diff">>) + Count(w, <<"-stdout">>) = 1
            /\ (Count(w, <<"-diff">>) = 1) <=> b_args.diff
            /\ Count(w, <<"-match-newline-at-toplevel">>)
                    = (IF b_args.match_newline_at_toplevel THEN 1 ELSE 0)
            /\ Count(w, <<"-stdin">>) = 1
            /\ w[3] = b_args.template
            /\ w[4] = b_args.rewrite
            /\ w[5] = <<"-matcher">>
            /\ w[6] # <<>>
            /\ w[6] \in {b_ctor.language} \cup {l.s : l \in Languages}

\* a rewrite has run that asked for a diff and for newlines matched at the
\* top level
DiffAtToplevelRun ==
    /\ b_op = "rewrite"
    /\ b_runs = 1
    /\ b_args.diff
    /\ b_args.match_newline_at_toplevel
    /\ b_cmd[Len(b_cmd)] = "-match-newline-at-toplevel"
    /\ "-diff" \in Words(b_cmd)

-----------------------------------------------------------------------------
(* Properties of the substitutions CombyBinary.substitute hands over        *)

\* the names and values a caller of the model passes in args, and the JSON
\* lists of variable/value records over them
ArgNames == {<<"1">>, <<"2">>}
ArgValues == {<<"a">>, <<"a", "\n">>, <<"'">>}
SubstitutionRecord(item) ==
    JDict(<< <<"variable">>, <<"value">> >>, <<JStr(item[1]), JStr(item[2])>>)
SubstitutionDocs ==
    {JList([i \in 1..Len(items) |-> SubstitutionRecord(items[i])]) :
        items \in SeqsUpTo(ArgNames \X ArgValues, 2)}

\* C26: the argument substitute of CombyBinary gives after -substitute-only
\* is the JSON text of a list with one record {variable, value} for each key
\* of args, in the order of args, each key and value as the caller gave it;
\* and the child gets no source text on its standard input.
SubstitutionsEncodeArgs ==
    (b_op = "substitute" /\ b_runs = 1) =>
        LET w == ShellWords(b_cmd)
            items == b_args.args.items
        IN  /\ w[6] = <<"-substitute-only">>
            /\ {d \in SubstitutionDocs : JsonDumps(d) = w[7]}
                    = {JList([i \in 1..Len(items) |-> SubstitutionRecord(items[i])])}
            /\ b_input = PyNone

\* a substitute has run with two arguments, one of them holding a line feed
\* and one a quote
TwoArgumentsSubstituted ==
    /\ b_op = "substitute"
    /\ b_runs = 1
    /\ Len(b_args.args.items) = 2
    /\ b_args.args.items[1][2] = <<"a", "\n">>
    /\ b_args.args.items[2][2] = <<"'">>
    /\ b_input = PyNone

-----------------------------------------------------------------------------
(* Properties of the order in which matches are decoded                     *)

\* how many of the items come before the first one the decoder D rejects
Preceding(items, D(_)) ==
    LET bad == {j \in 1..Len(items) : D(items[j]).err # ""}
    IN  IF bad = {} THEN Len(items)
        ELSE (CHOOSE j \in bad : \A l \in bad : j <= l) - 1

\* a generator in the given state has handed the caller the Matches of the
\* items before the first malformed one, in order, and has ended with the
\* error of that item if there is one
OneAtATime(state, out, items, yielded, D(_)) ==
    LET k == Preceding(items, D)
    IN  /\ Len(yielded) <= k
        /\ yielded = [j \in 1..Len(yielded) |-> D(items[j]).val]
        /\ (state = "suspended") => Len(yielded) >= 1
        /\ (state = "done") => (Len(yielded) = Len(items) /\ out.kind = "stop")
        /\ (state = "raised") => (Len(yielded) = k /\ k < Len(items))
        /\ (state = "raised" /\ out.kind = "raise") => out.exc = Exc(D(items[k + 1]).err)

\* the engine ran and printed a record with a list of matches
BinaryItemsRead ==
    /\ b_op = "matches"
    /\ b_runs = 1
    /\ g_state \in {"suspended", "done", "raised"}
    /\ CallExc(b_proc).type = ""
    /\ MatchesItems(b_proc.stdout).err = ""

\* the server answered 200 with a JSON array
HttpItemsRead ==
    /\ h_req.path = "matches"
    /\ h_state \in {"suspended", "done", "raised"}
    /\ h_resp.err = ""
    /\ h_resp.status_code = 200
    /\ JsonLoads(h_resp.text).err = ""
    /\ JsonLoads(h_resp.text).val.t = "list"

\* once a generator has raised it hands out nothing more
NothingAfterTheError ==
    /\ (g_state = "raised") =>
            (g_state' = "raised" /\ g_yielded' = g_yielded) \/ (g_state' = "none")
    /\ (h_state = "raised") =>
            (h_state' = "raised" /\ h_yielded' = h_yielded) \/ (h_state' = "none")

\* C28: matches of CombyBinary and of the HTTP client decode one match at a
\* time: when the k-th reported match (counting from zero) is the first that
\* does not decode, the caller has received exactly the k Matches before it,
\* in order, when the error of that match is raised, and no Match is handed
\* out after the error.
MatchesDecodedOneAtATime ==
    /\ [](BinaryItemsRead =>
            OneAtATime(g_state, b_out, MatchesItems(b_proc.stdout).val, g_yielded, DecodeMatch))
    /\ [](HttpItemsRead =>
            OneAtATime(h_state, h_out, JsonLoads(h_resp.text).val.xs, h_yielded,
                       MatchFromDictHttp))
    /\ [][NothingAfterTheError]_vars

\* the second match the engine reported did not decode, under typeguard's
\* checks: one Match was handed out before the error
SecondMatchMalformed ==
    /\ typeguard
    /\ BinaryItemsRead
    /\ g_state = "raised"
    /\ b_out.kind = "raise"
    /\ Len(g_yielded) = 1
    /\ Len(g_jsn) = 2

-----------------------------------------------------------------------------
(* Properties of the end of the constructor of Client                       *)

\* an iteration that leaves the constructor in its loop leaves less of the
\* budget than it found
BudgetDecreases ==
    (CtorIterate /\ c_pc' = "loop") => (c_time_left' < c_time_left /\ c_time_left' > 0)

\* C29: the constructor of Client always ends: every iteration of its loop
\* lowers the time that is left, so after finitely many probes it returns or
\* raises ConnectionFailure; with a timeout_connection of zero or less it
\* raises without a probe; and a probe that times out is its last one, the
\* constructor raising ConnectionFailure.
ConstructorTerminates ==
    /\ (c_pc = "loop") ~> (c_pc \in {"ready", "failed"})
    /\ [][BudgetDecreases]_vars
    /\ []((c_pc \in {"loop", "failed"} /\ c_timeout_connection <= 0)
            => (c_pc = "failed" /\ c_last = ""))
    /\ []((c_last \in {"Timeout", "ConnectTimeout"}) => c_pc = "failed")

\* the budget ran out over refused probes and the constructor raised
BudgetRanOut ==
    /\ c_pc = "failed"
    /\ c_last = "ConnectionError"
    /\ c_timeout_connection = Ticks(ShortTimeout)
    /\ c_time_left <= 0
    /\ c_elapsed > SleepRefused + SleepLoop

-----------------------------------------------------------------------------
(* Properties of a Match read as a mapping                                  *)

\* C30: a Match read as a mapping answers as its environment does: len(m) is
\* len(m.environment), iterating m gives the names iterating m.environment
\* gives, in the same order, m[t] is m.environment[t], and a name the
\* environment does not have is a KeyError from both.
MatchReadsItsEnvironment ==
    /\ (d_out.op = "match_len") => d_out.value = EnvLen(d_value.environment)
    /\ (d_out.op = "match_iter") => d_out.value = EnvIter(d_value.environment)
    /\ (d_out.op = "match_getitem") =>
            LET e == EnvGetItem(d_value.environment, d_out.value.term)
            IN  IF e.err = ""
                THEN d_out.kind = "return" /\ d_out.value.item = e.val
                ELSE d_out.kind = "raise" /\ d_out.exc = Exc("KeyError") /\ e.err = "KeyError"

\* a Match whose environment binds 2 before 1 has been iterated
TwoNamesIterated ==
    /\ d_class = "Match"
    /\ d_out.op = "match_iter"
    /\ Len(d_out.value) = 2
    /\ d_out.value[1] = TermKey(d_variant, <<"2">>)
    /\ d_out.value[2] = TermKey(d_variant, <<"1">>)
====
